---- MODULE Spec2Model ----
(***************************************************************************)
(* Alt-Text generator: the processing orchestrator (AltTextGeneratorTool), *)
(* its result store and the session token balance (AuthProvider).          *)
(*                                                                         *)
(* Every action is one JavaScript task: the code that runs between two     *)
(* awaits of an async handler, with every setState and every call it       *)
(* makes.  A handler invoked from a render keeps that render's `user` and  *)
(* `decrementTokens` for as long as it runs (a closure), so a run carries  *)
(* the balance it saw when it was submitted in `userTokens`.               *)
(***************************************************************************)
EXTENDS Integers, Sequences, FiniteSets, TLC

\* ------------------------------------------------------------------ bounds
MaxRuns == 2          \* handleUploads invocations in one session
MaxFiles == 2         \* files in one submission
MaxPages == 1         \* pages of a PDF / elements of a DOCX
MaxPerPage == 1       \* assets the oracle reports on one page
MaxInitUnits == 2     \* balance at login, in units of TOKENS_PER_JOB
MaxRegens == 1        \* regenerations started in one session
MaxCredits == 1       \* admin credits to the logged-in user in one session
MaxVisits == 1        \* times the tool page is opened in one session
MaxSeedItems == 2     \* items on display when an editing session starts
MaxEdits == 2         \* handleItemChange calls in an editing session
MaxSaves == 2         \* handleSaveItem calls in an editing session
MaxSessionRegens == 2 \* regenerations started in an editing session
MinSide == 3          \* width or height of the smallest page image, in pixels
MaxSide == 12         \* width or height of the largest page image, in pixels
MaxElements == 2      \* elements in the array the oracle answers for a page
MaxSummaryItems == 4  \* items handed to generateSummary
MaxPdfPages == 4      \* pages of the PDF handed to processPdfToImages
MaxDocPages == 2      \* pages (elements, images) of the input of a run followed alone
MaxRunUnits == 3      \* balance when that run is submitted, in units of TOKENS_PER_JOB
MaxCanvasPages == 2   \* full pages in the tallest canvas html2canvas hands back
MaxDocxElements == 3  \* img and table elements in the HTML mammoth makes of a DOCX
MaxCsvText == 2       \* characters in a text field of an exported item
MaxCsvItems == 2      \* items in an exported list

\* ------------------------------------------------------- program constants
TOKENS_PER_JOB == 10
ADMIN_CREDIT == 1000
buffer == 5           \* cropImage's margin, in pixels
PAGE_HEIGHT == 1123   \* renderHtmlViaCanvas: A4-like height
RENDER_SCALE == 2     \* renderHtmlViaCanvas: render at 2x resolution

Max(a, b) == IF a >= b THEN a ELSE b
Min(a, b) == IF a <= b THEN a ELSE b

\* ------------------------------------------------------------ data model
ProcessingStates == {"IDLE", "PROCESSING", "DONE", "ERROR"}
Pages == {"home", "tool", "admin"}
FileKinds == {"pdf", "docx", "image", "other"}

\* What generateImageAnalysis / generatePageAnalysis may return for one asset
\* (confidence in percent).
Analyses ==
    { [type |-> "Table", altText |-> "a1", keywords |-> "k1",
       taxonomy |-> "t1", confidence |-> 90],
      [type |-> "Chart/Graph", altText |-> "a2", keywords |-> "k2",
       taxonomy |-> "t2", confidence |-> 50] }

\* What the oracle reports for the assets of submitted files: the files of a
\* session show tables.  A regeneration may read the same asset differently
\* and draws from all of Analyses.
RunAnalyses == { a \in Analyses : a.type = "Table" }

\* boundingBox is optional: <<>> is undefined, <<box>> is present.
Boxes == { [x |-> 10, y |-> 10, width |-> 100, height |-> 50] }

\* The arrays generatePageAnalysis may resolve with (already filtered).
SeqsUpTo(S, n) == UNION { [1..k -> S] : k \in 0..n }
PageItems == { [analysis |-> a, boundingBox |-> <<b>>] : a \in RunAnalyses, b \in Boxes }
PageOutputs == SeqsUpTo(PageItems, MaxPerPage)

FileSets == SeqsUpTo(FileKinds, MaxFiles) \ {<<>>}

VARIABLES
    processingState,  \* useState<ProcessingState> of the mounted tool
    results,          \* useState<ProcessedItem[]>
    summary,          \* useState<string>
    user,             \* AuthProvider's user: [role, tokens]
    page,             \* App's page
    runs,             \* the handleUploads invocations, by order of submission
    regens,           \* the handleRegenerate invocations in flight
    nextId,           \* source of fresh item ids (Date.now()-Math.random())
    ledger,           \* history: balance at login; debits, credits and
                      \* regenerations made since, visits of the tool page
    saves,            \* the 300 ms timers of handleSaveItem pending, per item id
    editLog,          \* history: the fields each item had when its editing
                      \* began, the numbers of edits and saves made
    call              \* a service call followed on its own (cropImage in the
                      \* PDF loop, generatePageAnalysis, generateSummary,
                      \* processPdfToImages): arguments, position, outcome

vars == <<processingState, results, summary, user, page, runs, regens, nextId,
          ledger, saves, editLog, call>>

\* What the card handlers (edit, cancel, save) add to the state.
editVars == <<saves, editLog>>

\* The three useState cells of AltTextGeneratorTool as one value, so that the
\* handlers below are functions from tool state to tool state.
Tool == [processingState |-> processingState, results |-> results, summary |-> summary]

SetTool(t) ==
    /\ processingState' = t.processingState
    /\ results' = t.results
    /\ summary' = t.summary

\* useState initial values: what a freshly mounted tool shows.
MountedTool == [processingState |-> "IDLE", results |-> <<>>, summary |-> ""]

\* ------------------------------------------------------- session balance
\* A sign slip in the credit: debits instead of credits.
addTokensDebits(u, amount) == [u EXCEPT !.tokens = @ - amount]

\* addTokens, for the logged-in user: the stored record gets amount more.
addTokens(u, amount) == [u EXCEPT !.tokens = @ + amount]

\* decrementTokens(amount) as called from a closure whose user has
\* `closureTokens`: the new user is that user with the clamped difference.
decrementTokens(u, closureTokens, amount) ==
    [u EXCEPT !.tokens = Max(0, closureTokens - amount)]

\* A guard that refuses only a negative balance.
InsufficientTokensBelowZero(tokens) == tokens < 0

\* The guard in front of every analysis call and regeneration.
InsufficientTokens(tokens) == tokens < TOKENS_PER_JOB

\* ------------------------------------------------------------ result store
\* [...prev, newItem].sort((a, b) => a.pageNumber - b.pageNumber): a stable sort.
RECURSIVE InsertByPage(_, _)
InsertByPage(sorted, item) ==
    IF sorted = <<>> THEN <<item>>
    ELSE IF Head(sorted).pageNumber <= item.pageNumber
         THEN <<Head(sorted)>> \o InsertByPage(Tail(sorted), item)
         ELSE <<item>> \o sorted

RECURSIVE SortByPage(_)
SortByPage(s) ==
    IF s = <<>> THEN <<>>
    ELSE InsertByPage(SortByPage(SubSeq(s, 1, Len(s) - 1)), s[Len(s)])

\* The ProcessedItem built in the PDF loop and in processAndAddItems.
NewItem(id, analysis, box, pageNum, preview, pageImage) ==
    [ id |-> id, pageNumber |-> pageNum,
      type |-> analysis.type, altText |-> analysis.altText,
      keywords |-> analysis.keywords, taxonomy |-> analysis.taxonomy,
      confidence |-> analysis.confidence, boundingBox |-> box,
      previewImage |-> preview, originalPageImage |-> pageImage,
      tokensSpent |-> TOKENS_PER_JOB,
      isRegenerating |-> FALSE, isEditing |-> FALSE, isSaving |-> FALSE,
      originalState |-> <<>> ]

Ids(s) == [k \in 1..Len(s) |-> s[k].id]
HasId(s, id) == \E k \in 1..Len(s) : s[k].id = id
ItemOf(s, id) == s[CHOOSE k \in 1..Len(s) : s[k].id = id]

\* prev.map(r => r.id === itemId ? f(r) : r)
MapItem(s, id, f(_)) == [k \in 1..Len(s) |-> IF s[k].id = id THEN f(s[k]) ELSE s[k]]

\* ---------------------------------------------------------------- handlers
\* handleReset: back to IDLE with nothing displayed.
handleReset(t) ==
    [t EXCEPT !.processingState = "IDLE", !.results = <<>>, !.summary = ""]

startProcessing(t) == [handleReset(t) EXCEPT !.processingState = "PROCESSING"]

\* An error handler that also throws the partial results away.
handleErrorWipes(t) == [t EXCEPT !.processingState = "ERROR", !.results = <<>>]

\* handleError after explainError has settled: the toast and the state change.
handleErrorEnd(t) == [t EXCEPT !.processingState = "ERROR"]

\* The dispatch of handleUploads over Array.from(files).
IsDoc(f) == f \in {"pdf", "docx"}
IsImage(f) == f = "image"
HasDocFile(fileArray) == \E k \in 1..Len(fileArray) : IsDoc(fileArray[k])
docFile(fileArray) ==
    fileArray[CHOOSE k \in 1..Len(fileArray) :
                 /\ IsDoc(fileArray[k])
                 /\ \A j \in 1..(k - 1) : ~IsDoc(fileArray[j])]
imageFiles(fileArray) == SelectSeq(fileArray, IsImage)

\* The length test that lets a document travel with a second file.
RejectsMixedOffByOne(fileArray) == Len(fileArray) > 2

\* if (fileArray.length > 1) throw ... (under if (docFile))
RejectsMixed(fileArray) == Len(fileArray) > 1

\* What a submission is, as the spec classifies inputs (kept with the run so
\* that properties can speak of "a mixed submission").
InputClass(fileArray) ==
    IF HasDocFile(fileArray)
    THEN IF Len(fileArray) > 1 THEN "mixed" ELSE docFile(fileArray)
    ELSE IF Len(imageFiles(fileArray)) > 0 THEN "images" ELSE "unsupported"

\* ------------------------------------------------------------------- runs
\* One handleUploads invocation.  pc is the await it is suspended at:
\*   render          processPdfToImages / processDocxToImages
\*   analyzePage     generatePageAnalysis(pageImages[i])
\*   crop            cropImage for the first element of itemsFromPage
\*   read            FileReader.readAsDataURL(imageFiles[i])
\*   fetch           fetchImageAsBase64(url)
\*   analyzeSnippet  generateImageAnalysis inside processAndAddItems
\*   explain         explainError inside handleError (catch block)
\*   summary         generateSummary inside finishProcessing (finally block)
\* "none" is a run not yet submitted, "done" a run that has returned, and
\* "finally" a run that has left its try/catch and is about to call
\* finishProcessing in the task that is still running.
\* cleared records that handleReset ran, or the tool was unmounted, after the
\* run was submitted.
NoCalls == [page |-> 0, snippet |-> 0, summary |-> 0, explain |-> 0]

NoRun ==
    [ pc |-> "none", input |-> "none", path |-> "none", n |-> 0, i |-> 0,
      userTokens |-> 0, finalResults |-> <<>>, itemsFromPage |-> <<>>,
      err |-> "none", orphan |-> FALSE, cleared |-> FALSE, calls |-> NoCalls,
      toasts |-> {}, summaryArg |-> <<>> ]

InFlight(run) == run.pc \notin {"none", "done"}
LeaveTry(run) == [run EXCEPT !.pc = "finally"]

\* A summary that is skipped for a single item.
NeedsSummaryOffByOne(finalResults) == Len(finalResults) > 1

\* if (finalResults.length > 0)
NeedsSummary(finalResults) == Len(finalResults) > 0

\* finally { await finishProcessing(finalResults) } up to its first await;
\* when there is nothing to summarise it runs to its end and the run returns.
finishProcessing(run) ==
    IF NeedsSummary(run.finalResults)
    THEN [run EXCEPT !.pc = "summary", !.calls.summary = @ + 1,
                     !.summaryArg = Ids(run.finalResults)]
    ELSE [run EXCEPT !.pc = "done", !.toasts = @ \cup {"none-found"}]

\* throw e; catch (err) { await handleError(err) }: up to explainError's await.
handleError(run, e) ==
    [run EXCEPT !.pc = "explain", !.err = e, !.calls.explain = @ + 1,
                !.itemsFromPage = <<>>]

\* The head of the three for-loops: i < length, then the token check against
\* the closure's user, then the first await of the body.  Leaving the loop
\* leaves the try block, so finally runs.
LoopHead(run) ==
    IF run.i >= run.n THEN LeaveTry(run)
    ELSE IF InsufficientTokens(run.userTokens) THEN handleError(run, "insufficient")
    ELSE CASE run.path = "pdf"    -> [run EXCEPT !.pc = "analyzePage", !.calls.page = @ + 1]
           [] run.path = "docx"   -> [run EXCEPT !.pc = "analyzeSnippet", !.calls.snippet = @ + 1]
           [] run.path = "images" -> [run EXCEPT !.pc = "read"]

\* The synchronous part of handleUploads(files, null) after startProcessing.
DispatchFiles(run, fileArray) ==
    IF HasDocFile(fileArray)
    THEN IF RejectsMixed(fileArray) THEN handleError(run, "mixed")
         ELSE [run EXCEPT !.pc = "render", !.path = docFile(fileArray)]
    ELSE IF Len(imageFiles(fileArray)) > 0
         THEN LoopHead([run EXCEPT !.path = "images", !.n = Len(imageFiles(fileArray))])
         ELSE LeaveTry(run)

\* The synchronous part of handleUploads(null, url).
DispatchUrl(run) ==
    IF InsufficientTokens(run.userTokens) THEN handleError(run, "insufficient")
    ELSE [run EXCEPT !.pc = "fetch", !.path = "url", !.n = 1]

\* What a step of a run leaves in the tool: finishProcessing's last two
\* statements when the run has returned.  A run whose component was
\* unmounted has dead setters.
\* Results that reach the display only when the run has returned.
SettleHoldingBack(t, run) ==
    IF run.orphan THEN Tool
    ELSE IF run.pc = "done" THEN [t EXCEPT !.processingState = "DONE"]
    ELSE Tool

\* A finishProcessing that forgets setProcessingState(DONE).
SettleWithoutDone(t, run) ==
    IF run.orphan THEN Tool ELSE t

Settle(t, run) ==
    IF run.orphan THEN Tool
    ELSE IF run.pc = "done" THEN [t EXCEPT !.processingState = "DONE"]
    ELSE t

FreeRun == CHOOSE r \in 1..MaxRuns : runs[r].pc = "none" /\ \A q \in 1..(r - 1) : runs[q].pc # "none"

Debit(l) == [l EXCEPT !.debits = @ + 1]

\* ------------------------------------------------------------ card state
EditIds == 1..MaxSeedItems
\* The text areas of a card (ResultCard wires no field for type).
EditFields == {"altText", "keywords", "taxonomy"}
EditValues == {"x"}

\* No save timer pending; nothing edited yet.
NoSaves == [id \in EditIds |-> 0]
NoEdits == [ preEdit |-> [id \in EditIds |-> <<>>], edits |-> 0, saves |-> 0 ]

\* No service call is followed on its own.
NotCalled == [pc |-> "none"]

\* A task runs to its next await before anything else happens: while a run
\* stands between its catch and its finally, only that run moves.
TaskRunning == \E r \in 1..MaxRuns : runs[r].pc = "finally"

\* ------------------------------------------------------------------- Init
\* The user is past the login page (App renders the tool only then).  The
\* balance at login is whatever earlier sessions left: a multiple of
\* TOKENS_PER_JOB, since every account starts at a multiple and every change
\* is one.  An admin is logged in, so that the admin panel is reachable.
Init ==
    /\ processingState = "IDLE"
    /\ results = <<>>
    /\ summary = ""
    /\ \E k \in 0..MaxInitUnits :
          /\ user = [role |-> "admin", tokens |-> k * TOKENS_PER_JOB]
          /\ ledger = [initial |-> k * TOKENS_PER_JOB, debits |-> 0, credits |-> 0,
                       regens |-> 0, visits |-> 0]
    /\ page = "home"
    /\ runs = [r \in 1..MaxRuns |-> NoRun]
    /\ regens = {}
    /\ nextId = 1
    /\ saves = NoSaves
    /\ editLog = NoEdits
    /\ call = NotCalled

\* ------------------------------------------------------ submitting a run
\* FileUpload is rendered only while processingState is IDLE.
CanSubmit ==
    /\ page = "tool"
    /\ processingState = "IDLE"
    /\ \E r \in 1..MaxRuns : runs[r].pc = "none"

\* The invocations that have returned keep nothing: their locals are gone by
\* the time the next one is submitted.
Returned ==
    [r \in 1..MaxRuns |->
        IF runs[r].pc = "done" THEN [NoRun EXCEPT !.pc = "done"]
        ELSE IF InFlight(runs[r]) THEN [runs[r] EXCEPT !.cleared = TRUE]
        ELSE runs[r]]

\* handleUploads(files, null) until its first await.
SubmitFiles ==
    /\ ~TaskRunning
    /\ CanSubmit
    /\ \E fileArray \in FileSets :
          LET fresh == [NoRun EXCEPT !.userTokens = user.tokens,
                                     !.input = InputClass(fileArray)]
              run == DispatchFiles(fresh, fileArray)
          IN /\ runs' = [Returned EXCEPT ![FreeRun] = run]
             /\ SetTool(Settle(startProcessing(Tool), run))
    /\ UNCHANGED <<user, page, regens, nextId, ledger>>
    /\ UNCHANGED <<editVars, call>>

\* handleUploads(null, url) until its first await.
SubmitUrl ==
    /\ ~TaskRunning
    /\ CanSubmit
    /\ LET fresh == [NoRun EXCEPT !.userTokens = user.tokens, !.input = "url"]
           run == DispatchUrl(fresh)
       IN /\ runs' = [Returned EXCEPT ![FreeRun] = run]
          /\ SetTool(Settle(startProcessing(Tool), run))
    /\ UNCHANGED <<user, page, regens, nextId, ledger>>
    /\ UNCHANGED <<editVars, call>>

\* ---------------------------------------------------- the awaits of a run
\* processPdfToImages / processDocxToImages settles: it rejects, or resolves
\* with the n page images (elements) of the document.
RenderDone(r) ==
    /\ ~TaskRunning
    /\ runs[r].pc = "render"
    /\ \/ LET run == handleError(runs[r], "render")
          IN /\ runs' = [runs EXCEPT ![r] = run]
             /\ SetTool(Settle(Tool, run))
       \/ \E n \in 0..MaxPages :
             LET got == [runs[r] EXCEPT
                            !.n = n, !.i = 0,
                            !.toasts = IF runs[r].path = "docx" /\ n = 0
                                       THEN @ \cup {"docx-empty"} ELSE @]
                 run == LoopHead(got)
             IN /\ runs' = [runs EXCEPT ![r] = run]
                /\ SetTool(Settle(Tool, run))
    /\ UNCHANGED <<user, page, regens, nextId, ledger>>
    /\ UNCHANGED <<editVars, call>>

\* generatePageAnalysis settles.  On success the page is charged, then the
\* inner loop starts cropping; a page without assets goes to the next page.
AnalyzePageDone(r) ==
    /\ ~TaskRunning
    /\ runs[r].pc = "analyzePage"
    /\ \/ LET run == handleError(runs[r], "oracle")
          IN /\ runs' = [runs EXCEPT ![r] = run]
             /\ SetTool(Settle(Tool, run))
             /\ UNCHANGED <<user, ledger>>
       \/ \E itemsFromPage \in PageOutputs :
             LET run == IF itemsFromPage = <<>>
                        THEN LoopHead([runs[r] EXCEPT !.i = @ + 1])
                        ELSE [runs[r] EXCEPT !.pc = "crop",
                                             !.itemsFromPage = itemsFromPage]
             IN /\ user' = decrementTokens(user, runs[r].userTokens, TOKENS_PER_JOB)
                /\ ledger' = Debit(ledger)
                /\ runs' = [runs EXCEPT ![r] = run]
                /\ SetTool(Settle(Tool, run))
    /\ UNCHANGED <<page, regens, nextId>>
    /\ UNCHANGED <<editVars, call>>

\* cropImage settles for the next asset of the page.  On success the item is
\* pushed to finalResults and appended to results, which is re-sorted.
CropDone(r) ==
    /\ ~TaskRunning
    /\ runs[r].pc = "crop"
    /\ \/ LET run == handleError(runs[r], "crop")
          IN /\ runs' = [runs EXCEPT ![r] = run]
             /\ SetTool(Settle(Tool, run))
             /\ UNCHANGED nextId
       \/ LET item == Head(runs[r].itemsFromPage)
              rest == Tail(runs[r].itemsFromPage)
              newItem == NewItem(nextId, item.analysis, item.boundingBox,
                                 runs[r].i + 1, "crop", "page")
              pushed == [runs[r] EXCEPT !.finalResults = Append(@, newItem),
                                        !.itemsFromPage = rest]
              run == IF rest = <<>> THEN LoopHead([pushed EXCEPT !.i = @ + 1])
                     ELSE pushed
              shown == [Tool EXCEPT !.results = SortByPage(Append(@, newItem))]
          IN /\ runs' = [runs EXCEPT ![r] = run]
             /\ SetTool(Settle(shown, run))
             /\ nextId' = nextId + 1
    /\ UNCHANGED <<user, page, regens, ledger>>
    /\ UNCHANGED <<editVars, call>>

\* FileReader.readAsDataURL settles for imageFiles[i].
ReadDone(r) ==
    /\ ~TaskRunning
    /\ runs[r].pc = "read"
    /\ LET run == [runs[r] EXCEPT !.pc = "analyzeSnippet", !.calls.snippet = @ + 1]
       IN /\ runs' = [runs EXCEPT ![r] = run]
          /\ SetTool(Settle(Tool, run))
    /\ UNCHANGED <<user, page, regens, nextId, ledger>>
    /\ UNCHANGED <<editVars, call>>

ReadFailed(r) ==
    /\ ~TaskRunning
    /\ runs[r].pc = "read"
    /\ LET run == handleError(runs[r], "read")
       IN /\ runs' = [runs EXCEPT ![r] = run]
          /\ SetTool(Settle(Tool, run))
    /\ UNCHANGED <<user, page, regens, nextId, ledger>>
    /\ UNCHANGED <<editVars, call>>

\* fetchImageAsBase64 settles.
FetchDone(r) ==
    /\ ~TaskRunning
    /\ runs[r].pc = "fetch"
    /\ LET run == [runs[r] EXCEPT !.pc = "analyzeSnippet", !.calls.snippet = @ + 1]
       IN /\ runs' = [runs EXCEPT ![r] = run]
          /\ SetTool(Settle(Tool, run))
    /\ UNCHANGED <<user, page, regens, nextId, ledger>>
    /\ UNCHANGED <<editVars, call>>

FetchFailed(r) ==
    /\ ~TaskRunning
    /\ runs[r].pc = "fetch"
    /\ LET run == handleError(runs[r], "fetch")
       IN /\ runs' = [runs EXCEPT ![r] = run]
          /\ SetTool(Settle(Tool, run))
    /\ UNCHANGED <<user, page, regens, nextId, ledger>>
    /\ UNCHANGED <<editVars, call>>

\* generateImageAnalysis settles inside processAndAddItems.  On success the
\* item is charged, appended to results (no sort on this path) and pushed;
\* then the loop goes on, or, for a URL, the try block ends.
AnalyzeSnippetDone(r) ==
    /\ ~TaskRunning
    /\ runs[r].pc = "analyzeSnippet"
    /\ \/ LET run == handleError(runs[r], "oracle")
          IN /\ runs' = [runs EXCEPT ![r] = run]
             /\ SetTool(Settle(Tool, run))
             /\ UNCHANGED <<user, ledger, nextId>>
       \/ \E analysis \in RunAnalyses :
             LET newItem == NewItem(nextId, analysis, <<>>, runs[r].i + 1, "image", "")
                 run == LoopHead([runs[r] EXCEPT !.finalResults = Append(@, newItem),
                                                 !.i = @ + 1])
                 shown == [Tool EXCEPT !.results = Append(@, newItem)]
             IN /\ user' = decrementTokens(user, runs[r].userTokens, TOKENS_PER_JOB)
                /\ ledger' = Debit(ledger)
                /\ runs' = [runs EXCEPT ![r] = run]
                /\ SetTool(Settle(shown, run))
                /\ nextId' = nextId + 1
    /\ UNCHANGED <<page, regens>>
    /\ UNCHANGED <<editVars, call>>

\* explainError settles (with the friendly text, or with the raw message when
\* its own call failed: a toast either way).  handleError sets ERROR and
\* returns; the finally block follows in the same task.
ExplainDone(r) ==
    /\ ~TaskRunning
    /\ runs[r].pc = "explain"
    /\ LET run == LeaveTry([runs[r] EXCEPT !.toasts = @ \cup {"error"}])
       IN /\ runs' = [runs EXCEPT ![r] = run]
          /\ SetTool(Settle(handleErrorEnd(Tool), run))
    /\ UNCHANGED <<user, page, regens, nextId, ledger>>
    /\ UNCHANGED <<editVars, call>>

\* The finally block: finishProcessing(finalResults) is called.
Finally(r) ==
    /\ runs[r].pc = "finally"
    /\ LET run == finishProcessing(runs[r])
       IN /\ runs' = [runs EXCEPT ![r] = run]
          /\ SetTool(Settle(Tool, run))
    /\ UNCHANGED <<user, page, regens, nextId, ledger>>
    /\ UNCHANGED <<editVars, call>>

\* generateSummary settles: the oracle's text (possibly empty) or the
\* templated fallback.  finishProcessing stores it and sets DONE.
SummaryTexts == {"", "oracle", "fallback"}

SummaryDone(r) ==
    /\ ~TaskRunning
    /\ runs[r].pc = "summary"
    /\ \E docSummary \in SummaryTexts :
          LET run == [runs[r] EXCEPT !.pc = "done", !.toasts = @ \cup {"complete"}]
          IN /\ runs' = [runs EXCEPT ![r] = run]
             /\ SetTool(Settle([Tool EXCEPT !.summary = docSummary], run))
    /\ UNCHANGED <<user, page, regens, nextId, ledger>>
    /\ UNCHANGED <<editVars, call>>

\* ----------------------------------------------------------- regeneration
\* ResultsDisplay (with Start Over and the cards) is rendered in DONE, in
\* ERROR, and in PROCESSING once there is a result.
ResultsShown ==
    /\ page = "tool"
    /\ \/ processingState \in {"DONE", "ERROR"}
       \/ processingState = "PROCESSING" /\ Len(results) > 0

\* A card that offers Regenerate whatever the item's flag says.
CanRegenerateUngated(item) == ~item.isEditing

\* The Regenerate button is rendered when the item is not being edited and
\* is disabled while isRegenerating.
CanRegenerate(item) == ~item.isEditing /\ ~item.isRegenerating

\* handleRegenerate(itemId) until its first await.
handleRegenerate(id) ==
    LET item == ItemOf(results, id)
        flag(r) == [r EXCEPT !.isRegenerating = TRUE]
    IN /\ ledger' = [ledger EXCEPT !.regens = @ + 1]
       /\ IF InsufficientTokens(user.tokens)
          THEN UNCHANGED <<results, regens>>
          ELSE /\ results' = MapItem(results, id, flag)
               /\ regens' = regens \cup
                     {[ id |-> id,
                        pc |-> IF item.originalPageImage # "" /\ item.boundingBox # <<>>
                               THEN "crop" ELSE "analyze",
                        userTokens |-> user.tokens,
                        orphan |-> FALSE ]}
       /\ UNCHANGED <<processingState, summary, user, page, runs, nextId>>

\* A click on an item's Regenerate button.
Regenerate(id) ==
    /\ ~TaskRunning
    /\ ResultsShown
    /\ HasId(results, id)
    /\ CanRegenerate(ItemOf(results, id))
    /\ ledger.regens < MaxRegens
    /\ handleRegenerate(id)
    /\ UNCHANGED <<editVars, call>>

\* cropImage settles for a regeneration.
RegenCropDone(g) ==
    /\ ~TaskRunning
    /\ g \in regens
    /\ g.pc = "crop"
    /\ \E next \in {"analyze", "explain"} :
          regens' = (regens \ {g}) \cup {[g EXCEPT !.pc = next]}
    /\ UNCHANGED <<processingState, results, summary, user, page, runs, nextId, ledger>>
    /\ UNCHANGED <<editVars, call>>

\* A regeneration that leaves the card's edit state as it finds it.
RegeneratedKeepingEdit(r, analysis) ==
    [r EXCEPT !.type = analysis.type, !.altText = analysis.altText,
              !.keywords = analysis.keywords, !.taxonomy = analysis.taxonomy,
              !.confidence = analysis.confidence,
              !.isRegenerating = FALSE,
              !.tokensSpent = @ + TOKENS_PER_JOB]

\* A regeneration that books its own price as the item's whole spending.
RegeneratedAtFlatPrice(r, analysis) ==
    [r EXCEPT !.type = analysis.type, !.altText = analysis.altText,
              !.keywords = analysis.keywords, !.taxonomy = analysis.taxonomy,
              !.confidence = analysis.confidence,
              !.isRegenerating = FALSE,
              !.tokensSpent = TOKENS_PER_JOB,
              !.isEditing = FALSE, !.originalState = <<>>]

\* A regeneration that keeps the image it analysed as the item's preview.
RegeneratedWithNewPreview(r, analysis) ==
    [r EXCEPT !.type = analysis.type, !.altText = analysis.altText,
              !.keywords = analysis.keywords, !.taxonomy = analysis.taxonomy,
              !.confidence = analysis.confidence,
              !.isRegenerating = FALSE,
              !.tokensSpent = @ + TOKENS_PER_JOB,
              !.isEditing = FALSE, !.originalState = <<>>,
              !.previewImage = "recrop"]

\* The item after a successful regeneration.
Regenerated(r, analysis) ==
    [r EXCEPT !.type = analysis.type, !.altText = analysis.altText,
              !.keywords = analysis.keywords, !.taxonomy = analysis.taxonomy,
              !.confidence = analysis.confidence,
              !.isRegenerating = FALSE,
              !.tokensSpent = @ + TOKENS_PER_JOB,
              !.isEditing = FALSE, !.originalState = <<>>]

\* generateImageAnalysis settles for a regeneration.
RegenAnalyzeDone(g) ==
    /\ ~TaskRunning
    /\ g \in regens
    /\ g.pc = "analyze"
    /\ \/ /\ regens' = (regens \ {g}) \cup {[g EXCEPT !.pc = "explain"]}
          /\ UNCHANGED <<results, user, ledger>>
       \/ \E analysis \in Analyses :
             LET update(r) == Regenerated(r, analysis)
             IN /\ user' = decrementTokens(user, g.userTokens, TOKENS_PER_JOB)
                /\ ledger' = Debit(ledger)
                /\ results' = IF g.orphan THEN results ELSE MapItem(results, g.id, update)
                /\ regens' = regens \ {g}
    /\ UNCHANGED <<processingState, summary, page, runs, nextId>>
    /\ UNCHANGED <<editVars, call>>

\* explainError settles in the catch block of handleRegenerate: handleError
\* sets ERROR, then the item's flag is cleared.
RegenExplainDone(g) ==
    /\ ~TaskRunning
    /\ g \in regens
    /\ g.pc = "explain"
    /\ LET unflag(r) == [r EXCEPT !.isRegenerating = FALSE]
           failed == handleErrorEnd(Tool)
       IN SetTool(IF g.orphan THEN Tool
                  ELSE [failed EXCEPT !.results = MapItem(@, g.id, unflag)])
    /\ regens' = regens \ {g}
    /\ UNCHANGED <<user, page, runs, nextId, ledger>>
    /\ UNCHANGED <<editVars, call>>

\* ------------------------------------------------- reset, pages, credits
\* Start Over.
Reset ==
    /\ ~TaskRunning
    /\ ResultsShown
    /\ SetTool(handleReset(Tool))
    /\ runs' = [r \in 1..MaxRuns |->
                   IF InFlight(runs[r]) THEN [runs[r] EXCEPT !.cleared = TRUE]
                   ELSE runs[r]]
    /\ UNCHANGED <<user, page, regens, nextId, ledger>>
    /\ UNCHANGED <<editVars, call>>

\* setPage(p).  Leaving the tool page unmounts AltTextGeneratorTool: its state
\* is gone (the next mount starts from the useState initial values) and the
\* setters held by handlers still in flight no longer reach any component;
\* decrementTokens, which belongs to AuthProvider, still does.
SetPage(p) ==
    /\ ~TaskRunning
    /\ p # page
    /\ page' = p
    /\ IF p = "tool"
       THEN /\ ledger.visits < MaxVisits
            /\ ledger' = [ledger EXCEPT !.visits = @ + 1]
       ELSE UNCHANGED ledger
    /\ IF page = "tool"
       THEN /\ SetTool(MountedTool)
            /\ runs' = [r \in 1..MaxRuns |->
                           IF InFlight(runs[r])
                           THEN [runs[r] EXCEPT !.orphan = TRUE, !.cleared = TRUE]
                           ELSE runs[r]]
            /\ regens' = { [g EXCEPT !.orphan = TRUE] : g \in regens }
       ELSE UNCHANGED <<processingState, results, summary, runs, regens>>
    /\ UNCHANGED <<user, nextId>>
    /\ UNCHANGED <<editVars, call>>

\* AdminPanel's "Add 1k Tokens" on the logged-in user's own row.
AddTokens ==
    /\ ~TaskRunning
    /\ page = "admin"
    /\ user.role = "admin"
    /\ ledger.credits < MaxCredits
    /\ user' = addTokens(user, ADMIN_CREDIT)
    /\ ledger' = [ledger EXCEPT !.credits = @ + 1]
    /\ UNCHANGED <<processingState, results, summary, page, runs, regens, nextId>>
    /\ UNCHANGED <<editVars, call>>

ItemIds == 1..(MaxRuns * MaxPages * MaxPerPage)

Next ==
    \/ SubmitFiles
    \/ SubmitUrl
    \/ \E r \in 1..MaxRuns : RenderDone(r)
    \/ \E r \in 1..MaxRuns : AnalyzePageDone(r)
    \/ \E r \in 1..MaxRuns : CropDone(r)
    \/ \E r \in 1..MaxRuns : ReadDone(r)
    \/ \E r \in 1..MaxRuns : ReadFailed(r)
    \/ \E r \in 1..MaxRuns : FetchDone(r)
    \/ \E r \in 1..MaxRuns : FetchFailed(r)
    \/ \E r \in 1..MaxRuns : AnalyzeSnippetDone(r)
    \/ \E r \in 1..MaxRuns : ExplainDone(r)
    \/ \E r \in 1..MaxRuns : Finally(r)
    \/ \E r \in 1..MaxRuns : SummaryDone(r)
    \/ \E id \in ItemIds : Regenerate(id)
    \/ \E g \in regens : RegenCropDone(g)
    \/ \E g \in regens : RegenAnalyzeDone(g)
    \/ \E g \in regens : RegenExplainDone(g)
    \/ Reset
    \/ \E p \in Pages : SetPage(p)
    \/ AddTokens

Spec == Init /\ [][Next]_vars


-----------------------------------------------------------------------------
\* Steps of a run, as seen across one transition.

\* The run returns from handleUploads in this step.
Finishes(r) == runs[r].pc # "done" /\ runs'[r].pc = "done"

\* The run failed for a reason other than the token budget.
Failed(run) == run.err \notin {"none", "insufficient"}

\* The run issues an AnalyzePage or AnalyzeSnippet request in this step.
IssuesAnalysis(r) ==
    /\ InFlight(runs'[r])
    /\ \/ runs'[r].calls.page > runs[r].calls.page
       \/ runs'[r].calls.snippet > runs[r].calls.snippet

\* A step on the failure path of a run already in flight: the throw, the
\* handling of the error, and the finally block that follows it.
FailureStep(r) ==
    /\ InFlight(runs[r])
    /\ \/ runs[r].err = "none" /\ runs'[r].err # "none"
       \/ runs[r].err # "none" /\ runs'[r].pc # runs[r].pc

Quiescent == regens = {} /\ \A r \in 1..MaxRuns : ~InFlight(runs[r])

-----------------------------------------------------------------------------
\* C1: a run that ends because of an error (other than the token budget
\* running out) leaves processingState = ERROR when it returns.
C1_FailedRunEndsInError ==
    [][\A r \in 1..MaxRuns :
          (Finishes(r) /\ Failed(runs'[r]) /\ ~runs'[r].orphan)
              => processingState' = "ERROR"]_vars

\* C2: while the tool is mounted processingState changes only along
\* IDLE -> PROCESSING, PROCESSING -> DONE, PROCESSING -> ERROR, DONE -> IDLE
\* and ERROR -> IDLE.
AllowedTransitions ==
    { <<"IDLE", "PROCESSING">>, <<"PROCESSING", "DONE">>,
      <<"PROCESSING", "ERROR">>, <<"DONE", "IDLE">>, <<"ERROR", "IDLE">> }

C2_OnlyAllowedTransitions ==
    [][(page = "tool" /\ page' = "tool" /\ processingState' # processingState)
          => <<processingState, processingState'>> \in AllowedTransitions]_vars

\* C3: at most one handleUploads run of the mounted tool is in flight at any
\* time.
C3_OneRunInFlight ==
    Cardinality({r \in 1..MaxRuns : InFlight(runs[r]) /\ ~runs[r].orphan}) <= 1

\* C4: once every run and regeneration has returned, and no tokens were
\* credited, the balance is the initial balance minus TOKENS_PER_JOB for
\* each successful analysis call and each successful regeneration.
C4_BalanceIsInitialMinusDebits ==
    (Quiescent /\ ledger.credits = 0
        /\ ledger.initial >= TOKENS_PER_JOB * ledger.debits)
        => user.tokens = ledger.initial - TOKENS_PER_JOB * ledger.debits

\* C5: a run issues an AnalyzePage or AnalyzeSnippet request only when the
\* balance at that moment is at least TOKENS_PER_JOB.
C5_AnalysisOnlyWithBalance ==
    [][\A r \in 1..MaxRuns :
          IssuesAnalysis(r) => user'.tokens >= TOKENS_PER_JOB]_vars

\* C6: the token balance is a non-negative integer in every state, however
\* debits, credits, runs and regenerations interleave.
C6_BalanceNonNegative == user.tokens \in Nat

\* A stale debit has floored the balance at zero after a credit.
C6_Witness ==
    ledger.debits > 0 /\ ledger.credits > 0 /\ user.tokens = 0

\* C7: no step on the failure path of a run changes results, and when a run
\* that appended items fails and returns with no reset in between, every
\* item it appended is in results with the id it was given.
C7_FailureKeepsItems ==
    [][\A r \in 1..MaxRuns :
          /\ FailureStep(r) => results' = results
          /\ (Finishes(r) /\ Failed(runs'[r]) /\ ~runs'[r].cleared)
                => \A k \in 1..Len(runs'[r].finalResults) :
                      HasId(results', runs'[r].finalResults[k].id)]_vars

\* A run has failed after appending an item, and the item is displayed.
C7_Witness ==
    \E r \in 1..MaxRuns :
        /\ runs[r].pc = "done" /\ Failed(runs[r]) /\ ~runs[r].cleared
        /\ Len(runs[r].finalResults) >= 1
        /\ \A k \in 1..Len(runs[r].finalResults) :
              HasId(results, runs[r].finalResults[k].id)

\* C8: a run that ends without an error has called generateSummary exactly
\* once, over exactly the items it appended, if it appended any, and not at
\* all (showing the nothing-found notice instead) if it appended none; in
\* both cases processingState becomes DONE.
C8_SummaryOnceIffItems ==
    [][\A r \in 1..MaxRuns :
          (Finishes(r) /\ ~Failed(runs'[r])) =>
              LET run == runs'[r] IN
              /\ ~run.orphan => processingState' = "DONE"
              /\ IF Len(run.finalResults) > 0
                 THEN /\ run.calls.summary = 1
                      /\ run.summaryArg = Ids(run.finalResults)
                      /\ "none-found" \notin run.toasts
                 ELSE /\ run.calls.summary = 0
                      /\ "none-found" \in run.toasts]_vars

\* A run has returned without error after summarising the items it appended.
C8_Witness ==
    \E r \in 1..MaxRuns :
        /\ runs[r].pc = "done" /\ runs[r].err = "none" /\ ~runs[r].orphan
        /\ Len(runs[r].finalResults) > 0
        /\ runs[r].calls.summary = 1
        /\ processingState = "DONE"

\* C9 (as stated): a submission of a document together with another file
\* fails with the input error and makes no oracle request of any kind.
C9_MixedMakesNoRpc ==
    \A r \in 1..MaxRuns :
        runs[r].input = "mixed" => runs[r].err = "mixed" /\ runs[r].calls = NoCalls

\* C9 (amended): a submission of a document together with another file fails
\* with the input error before anything is rendered, read or analysed; it
\* makes no AnalyzePage, AnalyzeSnippet or Summarize request, and its only
\* oracle request is the one ExplainError call that words the error.
C9_MixedOnlyExplains ==
    \A r \in 1..MaxRuns :
        runs[r].input = "mixed" =>
            /\ runs[r].err = "mixed"
            /\ runs[r].finalResults = <<>>
            /\ runs[r].calls = [NoCalls EXCEPT !.explain = 1]

\* A mixed submission has returned.
C9_Witness ==
    \E r \in 1..MaxRuns : runs[r].input = "mixed" /\ runs[r].pc = "done"

\* C10: a submission with no PDF, DOCX or image file and no URL ends with
\* processingState = ERROR.
C10_UnsupportedEndsInError ==
    [][\A r \in 1..MaxRuns :
          (Finishes(r) /\ runs'[r].input = "unsupported" /\ ~runs'[r].orphan)
              => processingState' = "ERROR"]_vars

-----------------------------------------------------------------------------
\* C11: results is sorted by pageNumber ascending, and items with the same
\* pageNumber stand in the order in which they were appended (ids are handed
\* out in that order).
C11_SortedByPage ==
    \A i \in 1..Len(results) : \A j \in (i + 1)..Len(results) :
        \/ results[i].pageNumber < results[j].pageNumber
        \/ /\ results[i].pageNumber = results[j].pageNumber
           /\ results[i].id < results[j].id

-----------------------------------------------------------------------------
\* The cards of ResultsDisplay: editing, cancelling and saving an item, and
\* regenerating it, on a list of results that a finished run has left.
\* handleItemChange, handleCancelEdit and handleSaveItem are passed to the
\* cards as props and are modelled as the props allow them to be called, with
\* any item id at any time; Regenerate is offered as the card renders it.

\* The four fields a card edits (the shape of originalState).
Fields(item) ==
    [ type |-> item.type, altText |-> item.altText,
      keywords |-> item.keywords, taxonomy |-> item.taxonomy ]

\* A change that lands in altText whichever text area was typed in.
SetFieldAltTextOnly(item, field, value) == [item EXCEPT !.altText = value]

\* { ...item, [field]: value }
SetField(item, field, value) ==
    CASE field = "type"     -> [item EXCEPT !.type = value]
      [] field = "altText"  -> [item EXCEPT !.altText = value]
      [] field = "keywords" -> [item EXCEPT !.keywords = value]
      [] field = "taxonomy" -> [item EXCEPT !.taxonomy = value]

\* { ...item, ...item.originalState }
WithFields(item, f) ==
    [item EXCEPT !.type = f.type, !.altText = f.altText,
                 !.keywords = f.keywords, !.taxonomy = f.taxonomy]

\* An edit that takes its snapshot anew on every keystroke.
ChangedOverwritingOriginal(item, field, value) ==
    [SetField(item, field, value) EXCEPT
        !.isEditing = TRUE, !.originalState = <<Fields(item)>>]

\* handleItemChange, on the item with the given id:
\* originalState = item.originalState ?? { the four fields }.
Changed(item, field, value) ==
    [SetField(item, field, value) EXCEPT
        !.isEditing = TRUE,
        !.originalState = IF item.originalState # <<>> THEN item.originalState
                          ELSE <<Fields(item)>>]

\* A cancel that reverts whatever the item's flags say.
CancelledUnguarded(item) ==
    [item EXCEPT !.type = "", !.altText = "", !.keywords = "", !.taxonomy = "",
                 !.isEditing = FALSE, !.isSaving = FALSE, !.originalState = <<>>]

\* handleCancelEdit, on the item with the given id.
Cancelled(item) ==
    IF item.isEditing /\ item.originalState # <<>>
    THEN [WithFields(item, item.originalState[1]) EXCEPT
             !.isEditing = FALSE, !.isSaving = FALSE, !.originalState = <<>>]
    ELSE item

\* handleSaveItem before its timer: { ...r, isSaving: true }.
Saving(item) == [item EXCEPT !.isSaving = TRUE]

\* A save that leaves the snapshot behind.
SavedKeepingOriginal(item) == [item EXCEPT !.isEditing = FALSE, !.isSaving = FALSE]

\* handleSaveItem after its timer.
Saved(item) ==
    [item EXCEPT !.isEditing = FALSE, !.isSaving = FALSE, !.originalState = <<>>]

\* The list after each handler has run on item id.
handleItemChange(s, id, field, value) ==
    LET f(r) == Changed(r, field, value) IN MapItem(s, id, f)
handleCancelEdit(s, id) == MapItem(s, id, Cancelled)
handleSaveItemStart(s, id) == MapItem(s, id, Saving)
handleSaveItemEnd(s, id) == MapItem(s, id, Saved)

\* onChange of one of a card's text areas.
ItemChange(id, field, value) ==
    /\ ResultsShown
    /\ HasId(results, id)
    /\ editLog.edits < MaxEdits
    /\ results' = handleItemChange(results, id, field, value)
    /\ editLog' = [editLog EXCEPT
                      !.preEdit[id] = IF ItemOf(results, id).isEditing THEN @
                                      ELSE <<Fields(ItemOf(results, id))>>,
                      !.edits = @ + 1]
    /\ UNCHANGED <<processingState, summary, user, page, runs, regens, nextId,
                   ledger, saves, call>>

\* onCancelEdit(id).
CancelEdit(id) ==
    /\ ResultsShown
    /\ HasId(results, id)
    /\ results' = handleCancelEdit(results, id)
    /\ UNCHANGED <<processingState, summary, user, page, runs, regens, nextId,
                   ledger, saves, editLog, call>>

\* onSaveItem(id) until its await: the timer is started.
SaveItem(id) ==
    /\ ResultsShown
    /\ HasId(results, id)
    /\ editLog.saves < MaxSaves
    /\ results' = handleSaveItemStart(results, id)
    /\ saves' = [saves EXCEPT ![id] = @ + 1]
    /\ editLog' = [editLog EXCEPT !.saves = @ + 1]
    /\ UNCHANGED <<processingState, summary, user, page, runs, regens, nextId,
                   ledger, call>>

\* The 300 ms timer of a handleSaveItem call fires.
SaveItemDone(id) ==
    /\ saves[id] > 0
    /\ results' = IF page = "tool" THEN handleSaveItemEnd(results, id) ELSE results
    /\ saves' = [saves EXCEPT ![id] = @ - 1]
    /\ UNCHANGED <<processingState, summary, user, page, runs, regens, nextId,
                   ledger, editLog, call>>

\* A click on an item's Regenerate button during an editing session.
RegenerateItem(id) ==
    /\ ResultsShown
    /\ HasId(results, id)
    /\ CanRegenerate(ItemOf(results, id))
    /\ ledger.regens < MaxSessionRegens
    /\ handleRegenerate(id)
    /\ UNCHANGED <<editVars, call>>

\* The items a finished run has left: n images (by processAndAddItems) or the
\* n pages of a PDF with one asset each.
SeedAnalysis(k) ==
    IF k % 2 = 1
    THEN CHOOSE a \in Analyses : a.type = "Table"
    ELSE CHOOSE a \in Analyses : a.type # "Table"

SeedItem(kind, k) ==
    IF kind = "pdf"
    THEN NewItem(k, SeedAnalysis(k), <<CHOOSE b \in Boxes : TRUE>>, k, "crop", "page")
    ELSE NewItem(k, SeedAnalysis(k), <<>>, k, "image", "")

\* A run has finished (DONE) and left its items on display.
EditInit ==
    /\ processingState = "DONE"
    /\ summary = "oracle"
    /\ page = "tool"
    /\ runs = [r \in 1..MaxRuns |-> IF r = 1 THEN [NoRun EXCEPT !.pc = "done"] ELSE NoRun]
    /\ regens = {}
    /\ \E n \in 1..MaxSeedItems, kind \in {"pdf", "images"} :
          /\ results = [k \in 1..n |-> SeedItem(kind, k)]
          /\ nextId = n + 1
    /\ \E k \in 0..MaxInitUnits :
          /\ user = [role |-> "admin", tokens |-> k * TOKENS_PER_JOB]
          /\ ledger = [initial |-> k * TOKENS_PER_JOB, debits |-> 0, credits |-> 0,
                       regens |-> 0, visits |-> 1]
    /\ saves = NoSaves
    /\ editLog = NoEdits
    /\ call = NotCalled

EditNext ==
    \/ \E id \in EditIds, field \in EditFields, value \in EditValues :
          ItemChange(id, field, value)
    \/ \E id \in EditIds : CancelEdit(id)
    \/ \E id \in EditIds : SaveItem(id)
    \/ \E id \in EditIds : SaveItemDone(id)
    \/ \E id \in EditIds : RegenerateItem(id)
    \/ \E g \in regens : RegenCropDone(g)
    \/ \E g \in regens : RegenAnalyzeDone(g)
    \/ \E g \in regens : RegenExplainDone(g)
    \/ Reset

EditSpec == EditInit /\ [][EditNext]_vars

-----------------------------------------------------------------------------
\* C12: for every item, originalState is present exactly when isEditing is
\* true, however edits, saves (with their pending timers), cancels and
\* regenerations of the item interleave.
C12_OriginalIffEditing ==
    \A k \in 1..Len(results) :
        (results[k].originalState # <<>>) <=> results[k].isEditing

\* An item is being edited while its save timer and a regeneration are pending.
C12_Witness ==
    \E k \in 1..Len(results) :
        /\ results[k].isEditing /\ results[k].originalState # <<>>
        /\ results[k].isSaving /\ results[k].isRegenerating

\* C13: Cancel on an item that is being edited gives its four fields the
\* values they had before the first edit of that editing, and leaves
\* isEditing false.
C13_CancelRestores ==
    [][\A id \in EditIds :
          (HasId(results, id) /\ ItemOf(results, id).isEditing /\ CancelEdit(id))
              => /\ HasId(results', id)
                 /\ Fields(ItemOf(results', id)) = editLog.preEdit[id][1]
                 /\ ~ItemOf(results', id).isEditing]_vars

\* Two edits of one item have been cancelled: its fields are the old ones.
C13_Witness ==
    \E id \in EditIds :
        /\ HasId(results, id) /\ ~ItemOf(results, id).isEditing
        /\ editLog.preEdit[id] # <<>>
        /\ Fields(ItemOf(results, id)) = editLog.preEdit[id][1]
        /\ \A other \in EditIds \ {id} : editLog.preEdit[other] = <<>>
        /\ editLog.edits >= 2 /\ editLog.saves = 0 /\ ledger.regens = 0

\* C14: once Save has been invoked on an edited item, a Cancel of that item
\* (here: while the save is still pending) changes none of its four fields.
C14_CancelAfterSaveKeepsEdits ==
    [][\A id \in EditIds :
          (/\ HasId(results, id)
           /\ ItemOf(results, id).isEditing /\ ItemOf(results, id).isSaving
           /\ CancelEdit(id))
              => Fields(ItemOf(results', id)) = Fields(ItemOf(results, id))]_vars

\* C15: Cancel on an item that is not being edited leaves results as it is,
\* and Save called right after a Cancel (no save of the item pending) leaves
\* the list, once its timer has fired, as it was before the Save.
C15_CancelAndSaveAreNoOps ==
    \A id \in EditIds :
        HasId(results, id) =>
            LET cancelled == handleCancelEdit(results, id) IN
            /\ ~ItemOf(results, id).isEditing => cancelled = results
            /\ saves[id] = 0 =>
                  handleSaveItemEnd(handleSaveItemStart(cancelled, id), id) = cancelled

\* A Save of an item that was never edited has completed.
C15_Witness ==
    /\ Len(results) > 0
    /\ editLog.edits = 0 /\ editLog.saves > 0 /\ saves = NoSaves
    /\ \A k \in 1..Len(results) : ~results[k].isEditing /\ ~results[k].isSaving

\* C16: a regeneration requested with a balance below TOKENS_PER_JOB is
\* refused: no call goes out, the balance and every item stay as they are,
\* and the item is not flagged isRegenerating.
C16_RefusedWhenShort ==
    [][\A id \in EditIds :
          (user.tokens < TOKENS_PER_JOB /\ RegenerateItem(id))
              => /\ results' = results
                 /\ regens' = regens
                 /\ user' = user
                 /\ ledger'.debits = ledger.debits
                 /\ ~ItemOf(results', id).isRegenerating]_vars

\* Regenerations were requested with an empty balance and none went out.
C16_Witness ==
    /\ ledger.initial < TOKENS_PER_JOB /\ user.tokens = ledger.initial
    /\ ledger.regens > 0 /\ ledger.debits = 0 /\ regens = {}
    /\ Len(results) > 0
    /\ \A k \in 1..Len(results) :
          ~results[k].isRegenerating /\ results[k].tokensSpent = TOKENS_PER_JOB

\* C17: when a regeneration of a displayed item succeeds, the item gets the
\* oracle's five analysis fields, tokensSpent grows by TOKENS_PER_JOB,
\* isRegenerating and isEditing are false and originalState is absent,
\* whatever was done to the card meanwhile; every other item is unchanged.
C17_RegenerationReplaces ==
    [][\A g \in regens :
          (/\ g.pc = "analyze" /\ ~g.orphan /\ HasId(results, g.id)
           /\ RegenAnalyzeDone(g)
           /\ ledger'.debits = ledger.debits + 1)
              => /\ Len(results') = Len(results)
                 /\ \A k \in 1..Len(results) :
                       IF results[k].id # g.id THEN results'[k] = results[k]
                       ELSE /\ \E a \in Analyses :
                                  /\ Fields(results'[k]) = Fields(a)
                                  /\ results'[k].confidence = a.confidence
                            /\ results'[k].tokensSpent =
                                  results[k].tokensSpent + TOKENS_PER_JOB
                            /\ ~results'[k].isRegenerating
                            /\ ~results'[k].isEditing
                            /\ results'[k].originalState = <<>>]_vars

\* An item that was edited has been regenerated, its save still pending.
C17_Witness ==
    \E id \in EditIds :
        /\ HasId(results, id)
        /\ ItemOf(results, id).tokensSpent = 2 * TOKENS_PER_JOB
        /\ editLog.preEdit[id] # <<>>
        /\ ~ItemOf(results, id).isEditing /\ ItemOf(results, id).originalState = <<>>
        /\ ItemOf(results, id).isSaving /\ saves[id] > 0

\* C18: no item has two regenerations in flight at once.
C18_OneRegenerationPerItem ==
    \A id \in EditIds : Cardinality({g \in regens : g.id = id}) <= 1

\* An item's regeneration is in flight, its button is rendered but disabled,
\* and the session could still start another regeneration.
C18_Witness ==
    \E g \in regens :
        /\ HasId(results, g.id)
        /\ ItemOf(results, g.id).isRegenerating
        /\ ~ItemOf(results, g.id).isEditing
        /\ ledger.regens < MaxSessionRegens

\* C19: a regeneration that fails changes nothing but the item's
\* isRegenerating flag: fields, tokensSpent, the other items, the balance
\* and processingState stay as they were.
C19_FailedRegenerationIsLocal ==
    [][\A g \in regens :
          (/\ g.pc = "explain" /\ ~g.orphan /\ HasId(results, g.id)
           /\ RegenExplainDone(g))
              => /\ processingState' = processingState
                 /\ user' = user
                 /\ ledger'.debits = ledger.debits
                 /\ Len(results') = Len(results)
                 /\ \A k \in 1..Len(results) :
                       results'[k] = IF results[k].id = g.id
                                     THEN [results[k] EXCEPT !.isRegenerating = FALSE]
                                     ELSE results[k]]_vars

\* C20: without credits, the session never gets more successful (charged)
\* calls than its balance at the start pays for.
C20_NoMoreCallsThanPaidFor ==
    ledger.credits = 0 => ledger.debits * TOKENS_PER_JOB <= ledger.initial

-----------------------------------------------------------------------------
\* C21: when cropImage rejects for one asset of a PDF page, only that asset
\* is skipped: the run is not put on its error path, and goes on with the
\* next asset of the page, the next page, or the end of the loop.
C21_CropFailureSkipsOnlyThatAsset ==
    [][\A r \in 1..MaxRuns :
          (/\ runs[r].pc = "crop"
           /\ CropDone(r)
           /\ runs'[r].finalResults = runs[r].finalResults)
              => /\ runs'[r].err = "none"
                 /\ runs'[r].pc \in {"crop", "analyzePage", "finally"}]_vars

-----------------------------------------------------------------------------
\* cropImage, followed on its own for one asset of one PDF page: the page
\* image has been rendered, generatePageAnalysis resolves with one element,
\* cropImage settles, and on success the item is appended to results.

ImageSides == {MinSide, MaxSide}
ImageSizes == { [width |-> w, height |-> h] : w \in ImageSides, h \in ImageSides }

\* The extents the oracle may report along one axis of an image that is
\* side pixels long: an origin from one pixel before the image to its far
\* edge, and a length that is positive (up to one pixel more than the
\* image), zero, or negative (down to below minus twice the margin).
Origins(side) == (0 - 1)..side
Lengths(side) == {0 - (2 * buffer + 1), 0 - (2 * buffer), 0 - 1} \cup (0..(side + 1))

\* The bounding boxes the oracle may report on a page image: the schema asks
\* for four numbers and says nothing of their range.
Geometry(img) ==
    { [x |-> x, y |-> y, width |-> w, height |-> h] :
        x \in Origins(img.width), y \in Origins(img.height),
        w \in Lengths(img.width), h \in Lengths(img.height) }

\* What cropImage settles with: a rejection, or the region of the page image
\* that drawImage copies into the canvas (whose size is the region's).
Rejected == [ok |-> FALSE, sx |-> 0, sy |-> 0, sWidth |-> 0, sHeight |-> 0]

\* A crop that adds the margin once instead of on both sides.
cropImageSingleBuffer(img, box) ==
    LET sx == Max(0, box.x - buffer)
        sy == Max(0, box.y - buffer)
        sWidth == Min(img.width - sx, box.width + buffer)
        sHeight == Min(img.height - sy, box.height + buffer)
    IN IF sWidth <= 0 \/ sHeight <= 0 THEN Rejected
       ELSE [ok |-> TRUE, sx |-> sx, sy |-> sy, sWidth |-> sWidth, sHeight |-> sHeight]

\* img.onload of cropImage.
cropImage(img, box) ==
    LET sx == Max(0, box.x - buffer)
        sy == Max(0, box.y - buffer)
        sWidth == Min(img.width - sx, box.width + buffer * 2)
        sHeight == Min(img.height - sy, box.height + buffer * 2)
    IN IF sWidth <= 0 \/ sHeight <= 0 THEN Rejected
       ELSE [ok |-> TRUE, sx |-> sx, sy |-> sy, sWidth |-> sWidth, sHeight |-> sHeight]

\* Everything but the call and what the PDF loop writes.
pageFrame == <<processingState, summary, page, runs, regens, saves, editLog>>

\* A PDF run of a user with the price of one page stands at
\* generatePageAnalysis(pageImage) for its only page.
PageInit ==
    /\ processingState = "PROCESSING"
    /\ results = <<>>
    /\ summary = ""
    /\ page = "tool"
    /\ user = [role |-> "admin", tokens |-> TOKENS_PER_JOB]
    /\ ledger = [initial |-> TOKENS_PER_JOB, debits |-> 0, credits |-> 0,
                 regens |-> 0, visits |-> 1]
    /\ runs = [r \in 1..MaxRuns |-> NoRun]
    /\ regens = {}
    /\ nextId = 1
    /\ saves = NoSaves
    /\ editLog = NoEdits
    /\ \E img \in ImageSizes :
          call = [pc |-> "analyzePage", img |-> img, userTokens |-> TOKENS_PER_JOB,
                  item |-> <<>>, crop |-> Rejected]

\* generatePageAnalysis resolves with one element; the page is charged.
PageAnalyzed ==
    /\ call.pc = "analyzePage"
    /\ \E a \in RunAnalyses, box \in Geometry(call.img) :
          call' = [call EXCEPT !.pc = "crop",
                               !.item = <<[analysis |-> a, boundingBox |-> <<box>>]>>]
    /\ user' = decrementTokens(user, call.userTokens, TOKENS_PER_JOB)
    /\ ledger' = Debit(ledger)
    /\ UNCHANGED <<results, nextId>>
    /\ UNCHANGED pageFrame

\* cropImage(pageImage, item.boundingBox) settles from img.onload: with a
\* rejection, which leaves the loop, or with the crop, and then the item is
\* built and appended.
PageCropped ==
    /\ call.pc = "crop"
    /\ LET item == call.item[1]
           crop == cropImage(call.img, item.boundingBox[1])
           newItem == NewItem(nextId, item.analysis, item.boundingBox, 1,
                              crop, call.img)
       IN IF crop.ok
          THEN /\ call' = [call EXCEPT !.pc = "done", !.crop = crop]
               /\ results' = SortByPage(Append(results, newItem))
               /\ nextId' = nextId + 1
          ELSE /\ call' = [call EXCEPT !.pc = "failed"]
               /\ UNCHANGED <<results, nextId>>
    /\ UNCHANGED <<user, ledger>>
    /\ UNCHANGED pageFrame

\* cropImage settles from img.onerror, or finds no canvas context.
PageCropFailed ==
    /\ call.pc = "crop"
    /\ call' = [call EXCEPT !.pc = "failed"]
    /\ UNCHANGED <<results, nextId, user, ledger>>
    /\ UNCHANGED pageFrame

PageNext ==
    \/ PageAnalyzed
    \/ PageCropped
    \/ PageCropFailed

PageSpec == PageInit /\ [][PageNext]_vars

-----------------------------------------------------------------------------
\* The box of the element under way, and its place in the page image.
callBox == call.item[1].boundingBox[1]

\* A box of positive size that lies fully inside the image.
InsideImage(box, img) ==
    /\ box.width >= 1 /\ box.height >= 1
    /\ box.x >= 0 /\ box.y >= 0
    /\ box.x + box.width <= img.width
    /\ box.y + box.height <= img.height

\* C22: for a bounding box whose width or height is zero or negative, in an
\* image of any size, cropImage rejects and no ProcessedItem is created.
C22_DegenerateBoxRejected ==
    (/\ call.pc \in {"done", "failed"}
     /\ \/ callBox.width <= 0
        \/ callBox.height <= 0)
        => call.pc = "failed" /\ results = <<>>

C24_BoxInsidePageImage ==
    \A k \in 1..Len(results) :
        results[k].boundingBox # <<>> =>
            LET box == results[k].boundingBox[1]
                img == results[k].originalPageImage
            IN /\ box.x >= 0 /\ box.y >= 0
               /\ box.x + box.width <= img.width
               /\ box.y + box.height <= img.height

-----------------------------------------------------------------------------
\* The regeneration of item id succeeds in this step and reaches the item.
RegenerationSucceeds(id) ==
    \E g \in regens :
        /\ g.id = id /\ g.pc = "analyze" /\ ~g.orphan
        /\ RegenAnalyzeDone(g)
        /\ ledger'.debits = ledger.debits + 1

\* C25: an item's tokensSpent is TOKENS_PER_JOB when the item is created,
\* grows by exactly TOKENS_PER_JOB in a step in which a regeneration of that
\* item succeeds, and is the same before and after every other step (edits,
\* saves, cancels, failed or refused regenerations, operations on other
\* items) for as long as the item is in results; so it never decreases.
C25_TokensSpentGrowsByRegeneration ==
    /\ \A k \in 1..Len(results) : results[k].tokensSpent = TOKENS_PER_JOB
    /\ [][\A id \in EditIds :
             (HasId(results, id) /\ HasId(results', id)) =>
                 ItemOf(results', id).tokensSpent =
                     IF RegenerationSucceeds(id)
                     THEN ItemOf(results, id).tokensSpent + TOKENS_PER_JOB
                     ELSE ItemOf(results, id).tokensSpent]_vars

\* One item has been regenerated twice, with edits and saves in the
\* session, while another item still shows what its creation cost.
C25_Witness ==
    /\ Len(results) = 2
    /\ \E k \in 1..2 :
          /\ results[k].tokensSpent = 3 * TOKENS_PER_JOB
          /\ results[3 - k].tokensSpent = TOKENS_PER_JOB
    /\ editLog.edits > 0 /\ editLog.saves > 0

\* What identifies an item and where it came from.
Provenance(item) ==
    [ id |-> item.id, pageNumber |-> item.pageNumber,
      previewImage |-> item.previewImage,
      originalPageImage |-> item.originalPageImage ]

-----------------------------------------------------------------------------
\* generatePageAnalysis, followed on its own: what it makes of the text the
\* oracle answers.  The repository holds it twice: in src/unnamed/part_001,
\* the service the tool above imports (with generateImageAnalysis), and in
\* src/services/geminiService.ts (with a context parameter).

\* A property of a parsed element is absent (<<>>) or holds a value (<<v>>).
Strings(v) == {<<>>, <<"">>, <<v>>}
Present(v) == {<<>>, <<v>>}

\* The objects an element of the array may be.
Elements ==
    { [ isObject |-> TRUE, type |-> t, altText |-> a, keywords |-> k,
        taxonomy |-> x, confidence |-> c, boundingBox |-> b ] :
        t \in Strings("Table"), a \in Strings("a1"), k \in Present("k1"),
        x \in Present("t1"), c \in {<<>>, <<0>>, <<90>>}, b \in Present("box") }

\* null as an element of the array.
NullElement ==
    [ isObject |-> FALSE, type |-> <<>>, altText |-> <<>>, keywords |-> <<>>,
      taxonomy |-> <<>>, confidence |-> <<>>, boundingBox |-> <<>> ]

\* response.text: nothing but white space, text that JSON.parse rejects,
\* JSON that is not an array, or a JSON array.
Responses ==
    { [kind |-> k, items |-> <<>>] : k \in {"empty", "notJson", "nonArray"} }
    \cup { [kind |-> "array", items |-> items] :
               items \in SeqsUpTo(Elements \cup {NullElement}, MaxElements) }

\* JavaScript truthiness of a string property, and typeof ... === 'number'.
Truthy(property) == property # <<>> /\ property[1] # ""
IsNumber(property) == property # <<>>

\* What the call settles with: the array it resolves with, or a rejection.
Resolved(items) == [threw |-> FALSE, items |-> items]
Threw == [threw |-> TRUE, items |-> <<>>]

\* item && item.type && item.altText && item.boundingBox
KeepsElement(item) ==
    /\ item.isObject
    /\ Truthy(item.type) /\ Truthy(item.altText)
    /\ item.boundingBox # <<>>

\* ... && typeof item.confidence === 'number'
KeepsElementWithContext(item) ==
    KeepsElement(item) /\ IsNumber(item.confidence)

\* generatePageAnalysis of src/unnamed/part_001 once generateContent has
\* resolved: every throw inside the try is caught and thrown again.
generatePageAnalysis(response) ==
    CASE response.kind = "empty"    -> Resolved(<<>>)
      [] response.kind = "notJson"  -> Threw
      [] response.kind = "nonArray" -> Threw
      [] response.kind = "array"    -> Resolved(SelectSeq(response.items, KeepsElement))

\* generatePageAnalysis of src/services/geminiService.ts.
generatePageAnalysisWithContext(response) ==
    CASE response.kind = "empty"    -> Resolved(<<>>)
      [] response.kind = "notJson"  -> Threw
      [] response.kind = "nonArray" -> Resolved(<<>>)
      [] response.kind = "array"    ->
            Resolved(SelectSeq(response.items, KeepsElementWithContext))

Services == {"part_001", "geminiService"}

\* Everything but the call.
app == <<processingState, results, summary, user, page, runs, regens, nextId,
         ledger, saves, editLog>>

\* The tool as it stands while a service call is followed on its own.
AppIdle ==
    /\ processingState = "PROCESSING"
    /\ results = <<>>
    /\ summary = ""
    /\ page = "tool"
    /\ user = [role |-> "admin", tokens |-> TOKENS_PER_JOB]
    /\ ledger = [initial |-> TOKENS_PER_JOB, debits |-> 0, credits |-> 0,
                 regens |-> 0, visits |-> 1]
    /\ runs = [r \in 1..MaxRuns |-> NoRun]
    /\ regens = {}
    /\ nextId = 1
    /\ saves = NoSaves
    /\ editLog = NoEdits

\* generatePageAnalysis stands at await ai.models.generateContent(...).
AnalysisInit ==
    /\ AppIdle
    /\ \E service \in Services :
          call = [pc |-> "generateContent", service |-> service,
                  response |-> [kind |-> "none", items |-> <<>>],
                  result |-> Threw]

\* generateContent resolves and generatePageAnalysis runs to its end.
ContentGenerated ==
    /\ call.pc = "generateContent"
    /\ \E response \in Responses :
          call' = [call EXCEPT
                      !.pc = "settled",
                      !.response = response,
                      !.result = IF call.service = "part_001"
                                 THEN generatePageAnalysis(response)
                                 ELSE generatePageAnalysisWithContext(response)]
    /\ UNCHANGED app

\* generateContent rejects (network, quota, safety filter): the catch block
\* throws its own error.
ContentRejected ==
    /\ call.pc = "generateContent"
    /\ call' = [call EXCEPT !.pc = "settled",
                            !.response = [kind |-> "rejected", items |-> <<>>],
                            !.result = Threw]
    /\ UNCHANGED app

AnalysisNext ==
    \/ ContentGenerated
    \/ ContentRejected

AnalysisSpec == AnalysisInit /\ [][AnalysisNext]_vars

\* The element carries all six required fields.
CarriesAllSix(item) ==
    /\ item.isObject
    /\ item.type # <<>> /\ item.altText # <<>> /\ item.keywords # <<>>
    /\ item.taxonomy # <<>> /\ item.confidence # <<>> /\ item.boundingBox # <<>>

\* C27: for every array the oracle answers, generatePageAnalysis returns
\* exactly the elements that carry all six required fields, in their order;
\* an element missing any of the six is dropped.
C27_ReturnsElementsWithAllSix ==
    (call.pc = "settled" /\ call.response.kind = "array") =>
        /\ ~call.result.threw
        /\ call.result.items = SelectSeq(call.response.items, CarriesAllSix)

\* C28: when the oracle's answer is empty, is not JSON, or is JSON but not
\* an array, generatePageAnalysis returns an empty list and raises nothing.
C28_UnparseableGivesEmptyList ==
    (call.pc = "settled" /\ call.response.kind \in {"empty", "notJson", "nonArray"}) =>
        call.result = Resolved(<<>>)

-----------------------------------------------------------------------------
\* generateSummary, followed on its own from its entry to the end of the
\* finishProcessing that called it.  finishProcessing calls it for a list
\* with at least one item; the function itself takes any list.

\* Of an item, generateSummary reads the type.
SummaryTypes == {"Table", "Chart/Graph", "Diagram"}
SummaryItems == { [type |-> t] : t \in SummaryTypes }
SummaryInputs == SeqsUpTo(SummaryItems, MaxSummaryItems)

\* itemCounts as Object.entries lists it: one [type, count] entry per key,
\* in the order in which the keys were first set.
HasKey(acc, type) == \E k \in 1..Len(acc) : acc[k].type = type

\* A count that starts at zero for a type seen for the first time.
countItemFromZero(acc, item) ==
    IF HasKey(acc, item.type)
    THEN [k \in 1..Len(acc) |->
             IF acc[k].type = item.type THEN [acc[k] EXCEPT !.count = @ + 1]
             ELSE acc[k]]
    ELSE Append(acc, [type |-> item.type, count |-> 0])

\* acc[item.type] = (acc[item.type] || 0) + 1
countItem(acc, item) ==
    IF HasKey(acc, item.type)
    THEN [k \in 1..Len(acc) |->
             IF acc[k].type = item.type THEN [acc[k] EXCEPT !.count = @ + 1]
             ELSE acc[k]]
    ELSE Append(acc, [type |-> item.type, count |-> 1])

\* identifiedItems.reduce(..., {})
RECURSIVE itemCounts(_)
itemCounts(items) ==
    IF items = <<>> THEN <<>>
    ELSE countItem(itemCounts(SubSeq(items, 1, Len(items) - 1)), items[Len(items)])

\* `${count} ${type}${count > 1 ? 's' : ''}` for each entry, to be joined
\* with ', '.
summaryList(items) ==
    LET counts == itemCounts(items)
    IN [k \in 1..Len(counts) |->
           [count |-> counts[k].count, type |-> counts[k].type,
            plural |-> counts[k].count > 1]]

\* The three sentences generateSummary can return.
NoneIdentified == [kind |-> "none-identified", text |-> "", list |-> <<>>]
OracleSummary(text) == [kind |-> "oracle", text |-> text, list |-> <<>>]
FallbackSummary(items) == [kind |-> "fallback", text |-> "", list |-> summaryList(items)]

\* generateSummary(identifiedItems) has just been called.
SummaryInit ==
    /\ AppIdle
    /\ \E items \in SummaryInputs :
          call = [pc |-> "generateSummary", items |-> items, oracleCalls |-> 0,
                  returned |-> <<>>]

\* generateSummary up to its return for an empty list, or up to the await
\* of generateContent.
SummaryStarted ==
    /\ call.pc = "generateSummary"
    /\ call' = IF Len(call.items) = 0
               THEN [call EXCEPT !.pc = "returned", !.returned = <<NoneIdentified>>]
               ELSE [call EXCEPT !.pc = "generateContent", !.oracleCalls = @ + 1]
    /\ UNCHANGED app

\* The rest of finishProcessing once generateSummary has returned
\* docSummary: setSummary, the toasts, setProcessingState(DONE).
SummaryStored(docSummary) ==
    /\ call' = [call EXCEPT !.pc = "done", !.returned = <<docSummary>>]
    /\ summary' = docSummary
    /\ processingState' = "DONE"
    /\ UNCHANGED <<results, user, page, runs, regens, nextId, ledger, saves, editLog>>

\* generateContent resolves: the oracle's text, which may be empty.
SummaryGenerated ==
    /\ call.pc = "generateContent"
    /\ \E text \in {"", "oracle"} : SummaryStored(OracleSummary(text))

\* generateContent rejects: the catch block returns the templated sentence.
SummaryFellBack ==
    /\ call.pc = "generateContent"
    /\ SummaryStored(FallbackSummary(call.items))

SummaryNext ==
    \/ SummaryStarted
    \/ SummaryGenerated
    \/ SummaryFellBack

SummarySpec == SummaryInit /\ [][SummaryNext]_vars

\* The number of items of the given type.
CountOf(items, type) == Cardinality({k \in 1..Len(items) : items[k].type = type})

RECURSIVE SumCounts(_)
SumCounts(list) ==
    IF list = <<>> THEN 0 ELSE list[1].count + SumCounts(Tail(list))

\* C29: generateSummary always returns a sentence.  For an empty list it is
\* the fixed sentence, returned without a call to the oracle.  When the
\* oracle call fails it is the templated sentence, which lists every item
\* type present once, with the number of items of that type, the counts
\* adding up to the number of items.  When it returns to finishProcessing,
\* the sentence is stored and the run is DONE in the same step.
C29_SummaryNeverFails ==
    call.pc \in {"returned", "done"} =>
          /\ Len(call.returned) = 1
          /\ Len(call.items) = 0 <=> call.returned[1] = NoneIdentified
          /\ Len(call.items) = 0 => call.oracleCalls = 0 /\ call.pc = "returned"
          /\ Len(call.items) > 0 =>
                /\ call.oracleCalls = 1
                /\ call.pc = "done"
                /\ processingState = "DONE"
                /\ summary = call.returned[1]
          /\ call.returned[1].kind = "fallback" =>
                LET list == call.returned[1].list IN
                /\ \A t \in SummaryTypes :
                      CountOf(call.items, t) > 0 =>
                          Cardinality({k \in 1..Len(list) :
                              /\ list[k].type = t
                              /\ list[k].count = CountOf(call.items, t)
                              /\ list[k].plural = (list[k].count > 1)}) = 1
                /\ \A k \in 1..Len(list) : CountOf(call.items, list[k].type) > 0
                /\ \A j, k \in 1..Len(list) : list[j].type = list[k].type => j = k
                /\ SumCounts(list) = Len(call.items)

\* The oracle failed for a list with two types, one of them twice: the
\* templated sentence is the summary of a finished run.
C29_Witness ==
    /\ call.pc = "done" /\ processingState = "DONE"
    /\ Len(call.items) = 3
    /\ summary.kind = "fallback"
    /\ Len(summary.list) = 2
    /\ summary.list[1].count = 2 /\ summary.list[1].plural
    /\ summary.list[2].count = 1 /\ ~summary.list[2].plural

-----------------------------------------------------------------------------
\* processPdfToImages, followed on its own from await to await.

\* What a page of the file shows; a PDF is its pages, at least one.
PageContents == {"text", "figure"}
Pdfs == SeqsUpTo(PageContents, MaxPdfPages) \ {<<>>}

\* canvas.toDataURL('image/jpeg', 0.9) after page.render at scale 2.0: the
\* image of page number i, which shows what the page shows.
RenderedPage(i, content) ==
    [pageNumber |-> i, content |-> content, scale |-> 2, type |-> "image/jpeg"]

\* A loop that stops one page short.
MorePagesExclusive(i, numPages) == i < numPages

\* for (let i = 1; i <= numPages; i++)
MorePages(i, numPages) == i <= numPages

\* The head of the loop: the next getPage, or return pageImages.
PdfLoopHead(c) ==
    IF MorePages(c.i, c.numPages) THEN [c EXCEPT !.pc = "getPage"]
    ELSE [c EXCEPT !.pc = "resolved", !.returned = <<c.pageImages>>]

\* processPdfToImages(file) stands at await file.arrayBuffer().
PdfInit ==
    /\ AppIdle
    /\ \E pdf \in Pdfs :
          call = [pc |-> "arrayBuffer", pdf |-> pdf, numPages |-> 0, i |-> 0,
                  pageImages |-> <<>>, returned |-> <<>>, error |-> "none"]

\* file.arrayBuffer() resolves.
BufferRead ==
    /\ call.pc = "arrayBuffer"
    /\ call' = [call EXCEPT !.pc = "getDocument"]
    /\ UNCHANGED app

\* pdfjsLib.getDocument(arrayBuffer).promise resolves.
DocumentLoaded ==
    /\ call.pc = "getDocument"
    /\ call' = PdfLoopHead([call EXCEPT !.numPages = Len(call.pdf), !.i = 1])
    /\ UNCHANGED app

\* pdf.getPage(i) resolves and the canvas has a 2d context: render starts.
PageLoaded ==
    /\ call.pc = "getPage"
    /\ call' = [call EXCEPT !.pc = "render"]
    /\ UNCHANGED app

\* page.render(renderContext).promise resolves: the image is pushed and the
\* loop goes on.
PageRendered ==
    /\ call.pc = "render"
    /\ call' = PdfLoopHead([call EXCEPT
                   !.pageImages = Append(@, RenderedPage(call.i, call.pdf[call.i])),
                   !.i = @ + 1])
    /\ UNCHANGED app

\* Any of the awaits rejects, or getContext('2d') gives null after getPage:
\* the catch block throws the one error of processPdfToImages.
PdfFailed ==
    /\ call.pc \in {"arrayBuffer", "getDocument", "getPage", "render"}
    /\ call' = [call EXCEPT !.pc = "rejected", !.error = "Failed to process PDF"]
    /\ UNCHANGED app

PdfNext ==
    \/ BufferRead
    \/ DocumentLoaded
    \/ PageLoaded
    \/ PageRendered
    \/ PdfFailed

PdfSpec == PdfInit /\ [][PdfNext]_vars

\* C30: when processPdfToImages resolves for a PDF of N pages, it returns
\* exactly N images, the i-th being the rendering of page i; when any step
\* fails it throws its one error and returns nothing, whatever it had
\* rendered by then.
C30_AllPagesOrNone ==
    /\ call.pc = "resolved" =>
          /\ Len(call.returned) = 1
          /\ Len(call.returned[1]) = Len(call.pdf)
          /\ \A i \in 1..Len(call.pdf) :
                /\ call.returned[1][i].pageNumber = i
                /\ call.returned[1][i].content = call.pdf[i]
          /\ call.error = "none"
    /\ call.pc = "rejected" =>
          /\ call.returned = <<>>
          /\ call.error = "Failed to process PDF"
    /\ call.returned # <<>> => call.pc = "resolved"

\* A PDF of the largest size, its pages not all alike, has been rendered
\* in full.
C30_Witness ==
    /\ call.pc = "resolved"
    /\ Len(call.pdf) = MaxPdfPages
    /\ Len(call.returned[1]) = MaxPdfPages
    /\ call.pdf[1] # call.pdf[MaxPdfPages]

-----------------------------------------------------------------------------
\* One run followed from the moment its input is at hand: a document of up
\* to MaxDocPages pages, as many images, or a URL.  The user can press Start
\* Over; nothing else happens beside the run.

\* handleUploads past `pageImages = await processPdfToImages(docFile)` (or
\* the DOCX elements, or the filtering of the image files): the first loop
\* head has run.
Rendered(path, n, tokens) ==
    LoopHead([NoRun EXCEPT !.userTokens = tokens, !.input = path, !.path = path,
                           !.n = n,
                           !.toasts = IF path = "docx" /\ n = 0
                                      THEN {"docx-empty"} ELSE {}])

\* handleUploads(null, url) at its fetch.
Fetching(tokens) == DispatchUrl([NoRun EXCEPT !.userTokens = tokens, !.input = "url"])

RunInputs(tokens) ==
    { Rendered(path, n, tokens) : path \in {"pdf", "docx"}, n \in 0..MaxDocPages }
        \cup { Rendered("images", n, tokens) : n \in 1..MaxDocPages }
        \cup { Fetching(tokens) }

RunInit ==
    /\ results = <<>>
    /\ summary = ""
    /\ page = "tool"
    /\ regens = {}
    /\ nextId = 1
    /\ saves = NoSaves
    /\ editLog = NoEdits
    /\ call = NotCalled
    /\ \E k \in 0..MaxRunUnits :
          /\ user = [role |-> "admin", tokens |-> k * TOKENS_PER_JOB]
          /\ ledger = [initial |-> k * TOKENS_PER_JOB, debits |-> 0, credits |-> 0,
                       regens |-> 0, visits |-> 1]
          /\ \E run \in RunInputs(k * TOKENS_PER_JOB) :
                /\ runs = [r \in 1..MaxRuns |-> IF r = 1 THEN run ELSE NoRun]
                /\ processingState = startProcessing(MountedTool).processingState

RunNext ==
    \/ \E r \in 1..MaxRuns : AnalyzePageDone(r)
    \/ \E r \in 1..MaxRuns : CropDone(r)
    \/ \E r \in 1..MaxRuns : ReadDone(r)
    \/ \E r \in 1..MaxRuns : ReadFailed(r)
    \/ \E r \in 1..MaxRuns : FetchDone(r)
    \/ \E r \in 1..MaxRuns : FetchFailed(r)
    \/ \E r \in 1..MaxRuns : AnalyzeSnippetDone(r)
    \/ \E r \in 1..MaxRuns : ExplainDone(r)
    \/ \E r \in 1..MaxRuns : Finally(r)
    \/ \E r \in 1..MaxRuns : SummaryDone(r)
    \/ Reset

RunSpec == RunInit /\ [][RunNext]_vars

RECURSIVE SumSpent(_)
SumSpent(s) == IF s = <<>> THEN 0 ELSE Head(s).tokensSpent + SumSpent(Tail(s))

\* C33: when the run has returned, the amount taken from the balance is
\* TOKENS_PER_JOB times the number of items the run added to results, which
\* is also the sum of the tokensSpent values those items were created with.
C33_DebitIsTenPerItem ==
    runs[1].pc = "done"
        => /\ ledger.initial - user.tokens
                  = TOKENS_PER_JOB * Len(runs[1].finalResults)
           /\ SumSpent(runs[1].finalResults)
                  = TOKENS_PER_JOB * Len(runs[1].finalResults)

\* Every awaited call of a run in flight settles in the end, and the task
\* that follows a catch block runs its finally block.
RunFairness ==
    \A r \in 1..MaxRuns :
        /\ WF_vars(AnalyzePageDone(r))
        /\ WF_vars(CropDone(r))
        /\ WF_vars(ReadDone(r) \/ ReadFailed(r))
        /\ WF_vars(FetchDone(r) \/ FetchFailed(r))
        /\ WF_vars(AnalyzeSnippetDone(r))
        /\ WF_vars(ExplainDone(r))
        /\ WF_vars(Finally(r))
        /\ WF_vars(SummaryDone(r))

FairRunSpec == RunInit /\ [][RunNext]_vars /\ RunFairness

\* C36: provided every awaited call settles, a run in flight returns in the
\* end, and a tool that shows PROCESSING shows DONE or ERROR in the end.
C36_RunLeavesProcessing ==
    /\ \A r \in 1..MaxRuns : InFlight(runs[r]) ~> (runs[r].pc = "done")
    /\ (processingState = "PROCESSING") ~> (processingState \in {"DONE", "ERROR"})

\* A run whose oracle call failed on the second page has returned, and the
\* tool shows DONE.
C36_Witness ==
    /\ runs[1].pc = "done"
    /\ runs[1].err = "oracle"
    /\ runs[1].i = 1
    /\ ~runs[1].cleared
    /\ processingState = "DONE"

-----------------------------------------------------------------------------
\* C37: once Start Over has left the tool idle with no results and no
\* summary, it stays so until the user submits again, whatever run or
\* regeneration was in flight when Start Over was pressed.
C37_ResetHoldsUntilSubmission ==
    [][(/\ processingState = "IDLE" /\ results = <<>> /\ summary = ""
        /\ page = "tool" /\ page' = "tool"
        /\ ~SubmitFiles /\ ~SubmitUrl)
          => (processingState' = "IDLE" /\ results' = <<>> /\ summary' = "")]_vars

\* C39: once every run and regeneration has returned, and no debit had to
\* be clamped, the balance is the initial balance plus ADMIN_CREDIT for each
\* credit minus TOKENS_PER_JOB for each debit: no credit is lost to a debit
\* that was in flight beside it.
C39_CreditsNeverLost ==
    (Quiescent /\ ledger.credits > 0
        /\ ledger.initial >= TOKENS_PER_JOB * ledger.debits)
        => user.tokens = ledger.initial + ADMIN_CREDIT * ledger.credits
                            - TOKENS_PER_JOB * ledger.debits

-----------------------------------------------------------------------------
\* C34: an edit of one field of one item gives that field the new value at
\* once and leaves every other item, and everything else in the item but
\* its editing flag and snapshot, as it was.  The snapshot is taken by the
\* first edit of an editing session (the item was not being edited: nothing
\* edited yet, or a save, cancel or regeneration has ended the session
\* before) and holds the four fields from just before that edit; a later
\* edit of the session leaves the snapshot alone.
C34_EditTouchesOneFieldOfOneItem ==
    [][\A id \in EditIds, field \in EditFields, value \in EditValues :
          (HasId(results, id) /\ ItemChange(id, field, value)) =>
              LET old == ItemOf(results, id)
                  new == ItemOf(results', id)
              IN /\ Ids(results') = Ids(results)
                 /\ \A k \in 1..Len(results) :
                       results[k].id # id => results'[k] = results[k]
                 /\ new[field] = value
                 /\ [new EXCEPT ![field] = old[field],
                                !.isEditing = old.isEditing,
                                !.originalState = old.originalState] = old
                 /\ new.isEditing
                 /\ new.originalState = IF old.isEditing THEN old.originalState
                                        ELSE <<Fields(old)>>]_vars

\* Two fields of one item have been edited in one session: the snapshot
\* holds neither new value, and the other item is as it was seeded.
C34_Witness ==
    /\ Len(results) = 2
    /\ editLog.edits = 2 /\ editLog.saves = 0 /\ ledger.regens = 0
    /\ \E k \in 1..2 :
          /\ results[k].isEditing
          /\ results[k].altText = "x" /\ results[k].keywords = "x"
          /\ results[k].originalState # <<>>
          /\ results[k].originalState[1].altText # "x"
          /\ results[k].originalState[1].keywords # "x"
          /\ ~results[3 - k].isEditing
          /\ results[3 - k].originalState = <<>>

\* C38: an item stops being edited only by a Cancel, by the timer of a Save
\* issued in the editing session that is under way, or by a regeneration
\* that succeeds.  A Save sets isSaving; a Cancel, or a save that has come
\* to its end, clears it before the next session can begin.  So a timer that
\* fires on an item that is being edited and is not marked isSaving belongs
\* to a Save issued before the session began, and must leave it alone.
C38_SessionEndsByOwnSaveOrCancel ==
    [][\A id \in EditIds :
          (/\ HasId(results, id) /\ HasId(results', id)
           /\ ItemOf(results, id).isEditing
           /\ ~ItemOf(results', id).isEditing)
              => \/ CancelEdit(id)
                 \/ SaveItemDone(id) /\ ItemOf(results, id).isSaving
                 \/ RegenerationSucceeds(id)]_vars

-----------------------------------------------------------------------------
\* renderHtmlViaCanvas followed on its own: html2canvas hands back one tall
\* canvas, which is cut into page images in the same task.

CanvasHeights == 0..(MaxCanvasPages * PAGE_HEIGHT * RENDER_SCALE)

\* Math.ceil(a / b) for a >= 0, b > 0.
Ceil(a, b) == (a + b - 1) \div b

\* Whether pageCanvas.getContext('2d') gave a context, for each page index.
Contexts(numPages) == [0..(numPages - 1) -> BOOLEAN]

\* One page image: the height of its canvas, and the rows of the source
\* canvas drawn into it (sy onwards, sHeight of them, if sHeight > 0).
PageSlice(i, totalHeight) ==
    LET sy == i * PAGE_HEIGHT * RENDER_SCALE
        sHeight == Min(PAGE_HEIGHT * RENDER_SCALE, totalHeight - sy)
    IN [ height |-> PAGE_HEIGHT * RENDER_SCALE, sy |-> sy, sHeight |-> sHeight,
         drawn |-> sHeight > 0 ]

\* for (let i = 0; i < numPages; i++) { if (!ctx) continue; ...; push }
RECURSIVE Paginate(_, _, _, _)
Paginate(i, numPages, totalHeight, contexts) ==
    IF i >= numPages THEN <<>>
    ELSE (IF contexts[i] THEN <<PageSlice(i, totalHeight)>> ELSE <<>>)
            \o Paginate(i + 1, numPages, totalHeight, contexts)

\* What renderHtmlViaCanvas resolves with for a canvas of the given height.
renderHtmlViaCanvas(totalHeight, contexts) ==
    IF totalHeight = 0 THEN <<>>
    ELSE Paginate(0, Ceil(totalHeight, PAGE_HEIGHT * RENDER_SCALE), totalHeight, contexts)

\* renderHtmlViaCanvas stands at await html2canvas(container, ...).
CanvasInit ==
    /\ AppIdle
    /\ call = [pc |-> "html2canvas", totalHeight |-> 0, pageImages |-> <<>>]

\* html2canvas resolves with a canvas; the pages are cut and the promise is
\* resolved with them.
CanvasRendered ==
    /\ call.pc = "html2canvas"
    /\ \E totalHeight \in CanvasHeights :
          \E contexts \in Contexts(Ceil(totalHeight, PAGE_HEIGHT * RENDER_SCALE)) :
             call' = [pc |-> "resolved", totalHeight |-> totalHeight,
                      pageImages |-> renderHtmlViaCanvas(totalHeight, contexts)]
    /\ UNCHANGED app

\* html2canvas rejects (or the paging throws): the promise is rejected.
CanvasFailed ==
    /\ call.pc = "html2canvas"
    /\ call' = [call EXCEPT !.pc = "rejected"]
    /\ UNCHANGED app

CanvasNext ==
    \/ CanvasRendered
    \/ CanvasFailed

CanvasSpec == CanvasInit /\ [][CanvasNext]_vars

\* C35: for a canvas of height H > 0, renderHtmlViaCanvas resolves with
\* exactly ceil(H / 2246) page images, each 2246 high; the slice of page k
\* starts where that of page k - 1 ended, the first starts at row 0 and the
\* last ends at row H, every slice but the last is a full page, and H = 0
\* gives no page.
C35_PagesCoverCanvasOnce ==
    call.pc = "resolved" =>
        LET H == call.totalHeight
            full == PAGE_HEIGHT * RENDER_SCALE
            n == Len(call.pageImages)
            p == call.pageImages
        IN /\ n = Ceil(H, full)
           /\ H = 0 => n = 0
           /\ \A k \in 1..n :
                 /\ p[k].height = full
                 /\ p[k].drawn /\ p[k].sHeight > 0
                 /\ p[k].sy = IF k = 1 THEN 0 ELSE p[k - 1].sy + p[k - 1].sHeight
                 /\ k < n => p[k].sHeight = full
           /\ n > 0 => p[n].sy + p[n].sHeight = H

-----------------------------------------------------------------------------
\* processDocxToImages (the version that extracts elements) followed on its
\* own.

\* An element matched by querySelectorAll('img, table'), in document order:
\* its tag; whether it can be used (an img with a data: src, a table with a
\* non-empty bounding rectangle); and its parent element, which is the
\* document's own markup ("body": a paragraph or the container) or the cell
\* of a table ("td").  The parent of a matched element is never itself an
\* img or a table in parsed HTML.
DocxElements == [tag : {"IMG", "TABLE"}, usable : BOOLEAN, parent : {"body", "td"}]
\* A cell belongs to a table that comes before it in document order.
DocxDocuments ==
    { doc \in SeqsUpTo(DocxElements, MaxDocxElements) :
        \A i \in 1..Len(doc) :
            doc[i].parent = "td" =>
                \E j \in 1..(i - 1) : doc[j].tag = "TABLE" /\ doc[j].parent = "body" }

\* element.parentElement && assetElements.includes(element.parentElement)
NestedInAsset(element) == element.parent \in {"IMG", "TABLE"}

\* { image, context } made of element number i.
DocxAsset(i, element) == [element |-> i, tag |-> element.tag]

\* for (const element of assetElements): an image is pushed at once, the
\* rendering of a table is started and its promise kept.
RECURSIVE ExtractElements(_, _, _)
ExtractElements(doc, i, c) ==
    IF i > Len(doc) THEN c
    ELSE LET element == doc[i]
             next == IF NestedInAsset(element) \/ ~element.usable THEN c
                     ELSE IF element.tag = "IMG"
                          THEN [c EXCEPT !.assets = Append(@, DocxAsset(i, element))]
                          ELSE [c EXCEPT !.renderPromises = @ \cup {i}]
         IN ExtractElements(doc, i + 1, next)

\* processDocxToImages(file) stands at the FileReader's promise.
DocxInit ==
    /\ AppIdle
    /\ \E doc \in DocxDocuments :
          call = [pc |-> "readFile", doc |-> doc, assets |-> <<>>,
                  renderPromises |-> {}, failed |-> {}, returned |-> <<>>,
                  error |-> "none"]

\* reader.onload with an ArrayBuffer.
DocxRead ==
    /\ call.pc = "readFile"
    /\ call' = [call EXCEPT !.pc = "convertToHtml"]
    /\ UNCHANGED app

\* reader.onerror (or a result that is no ArrayBuffer): outside the try.
DocxReadFailed ==
    /\ call.pc = "readFile"
    /\ call' = [call EXCEPT !.pc = "rejected", !.error = "File reading error"]
    /\ UNCHANGED app

\* mammoth.convertToHtml resolves: the loop over the elements runs, then
\* Promise.all(renderPromises) is awaited.
DocxConverted ==
    /\ call.pc = "convertToHtml"
    /\ call' = ExtractElements(call.doc, 1, [call EXCEPT !.pc = "renderAll"])
    /\ UNCHANGED app

\* mammoth.convertToHtml rejects: the catch block throws the one error.
DocxConvertFailed ==
    /\ call.pc = "convertToHtml"
    /\ call' = [call EXCEPT !.pc = "rejected",
                            !.error = "Failed to extract elements from DOCX"]
    /\ UNCHANGED app

\* renderElementToImage resolves for one of the tables: .then pushes it.
TableRendered(i) ==
    /\ call.pc = "renderAll"
    /\ i \in call.renderPromises
    /\ call' = [call EXCEPT !.renderPromises = @ \ {i},
                            !.assets = Append(@, DocxAsset(i, call.doc[i]))]
    /\ UNCHANGED app

\* renderElementToImage rejects for one of the tables: .catch warns.
TableRenderFailed(i) ==
    /\ call.pc = "renderAll"
    /\ i \in call.renderPromises
    /\ call' = [call EXCEPT !.renderPromises = @ \ {i}, !.failed = @ \cup {i}]
    /\ UNCHANGED app

\* Promise.all(renderPromises) resolves: return assets.
DocxReturned ==
    /\ call.pc = "renderAll"
    /\ call.renderPromises = {}
    /\ call' = [call EXCEPT !.pc = "resolved", !.returned = <<call.assets>>]
    /\ UNCHANGED app

DocxNext ==
    \/ DocxRead
    \/ DocxReadFailed
    \/ DocxConverted
    \/ DocxConvertFailed
    \/ \E i \in 1..MaxDocxElements : TableRendered(i)
    \/ \E i \in 1..MaxDocxElements : TableRenderFailed(i)
    \/ DocxReturned

DocxSpec == DocxInit /\ [][DocxNext]_vars

\* The top-level images and tables of the document that could be turned
\* into an image, in the order of their elements.
RECURSIVE TopLevelAssets(_, _, _)
TopLevelAssets(doc, i, failed) ==
    IF i > Len(doc) THEN <<>>
    ELSE (IF doc[i].parent = "body" /\ doc[i].usable /\ i \notin failed
          THEN <<DocxAsset(i, doc[i])>> ELSE <<>>)
            \o TopLevelAssets(doc, i + 1, failed)

\* C40: what processDocxToImages returns is the document's top-level images
\* and tables in the order in which their elements occur in the document,
\* in whatever order the renderings of the tables complete.
C40_AssetsInDocumentOrder ==
    call.pc = "resolved" =>
        call.returned[1] = TopLevelAssets(call.doc, 1, call.failed)

-----------------------------------------------------------------------------
\* downloadCsv followed on its own.  A text is a sequence of characters; the
\* characters that matter to CSV are the comma, the double quote and the
\* line break, and "a" stands for every other one.

CsvChars == {"a", ",", "\"", "\n"}
CsvTexts == SeqsUpTo(CsvChars, MaxCsvText)
ShortCsvTexts == SeqsUpTo(CsvChars, 1)

\* What downloadCsv reads of an item.  type is whatever truthy string the
\* oracle answered; confidence is in hundredths of a percent (9550 is 0.955).
CsvItem(pageNumber, type, altText, keywords, taxonomy, confidence) ==
    [ pageNumber |-> pageNumber, type |-> type, altText |-> altText,
      keywords |-> keywords, taxonomy |-> taxonomy, confidence |-> confidence ]

\* An item with nothing in it that CSV cares about.
PlainCsvItem == CsvItem(2, <<"a">>, <<"a">>, <<"a">>, <<"a">>, 10000)

\* The lists that begin with the given item.
CsvLists(item) ==
    {<<item>>} \cup (IF MaxCsvItems >= 2 THEN {<<item, PlainCsvItem>>} ELSE {})

Digit(d) == <<"0", "1", "2", "3", "4", "5", "6", "7", "8", "9">>[d + 1]

\* String(n) for a natural number.
RECURSIVE Digits(_)
Digits(n) == IF n < 10 THEN <<Digit(n)>> ELSE Digits(n \div 10) \o <<Digit(n % 10)>>

\* (item.confidence * 100).toFixed(2)
ToFixed2(confidence) ==
    Digits(confidence \div 100)
        \o <<".", Digit((confidence % 100) \div 10), Digit(confidence % 10)>>

\* text.replace(/"/g, '""')
RECURSIVE DoubleQuotes(_)
DoubleQuotes(text) ==
    IF text = <<>> THEN <<>>
    ELSE (IF Head(text) = "\"" THEN <<"\"", "\"">> ELSE <<Head(text)>>)
            \o DoubleQuotes(Tail(text))

\* `"${text.replace(/"/g, '""')}"`
Quoted(text) == <<"\"">> \o DoubleQuotes(text) \o <<"\"">>

\* parts.join(sep)
RECURSIVE Join(_, _)
Join(parts, sep) ==
    IF parts = <<>> THEN <<>>
    ELSE IF Len(parts) = 1 THEN parts[1]
    ELSE parts[1] \o <<sep>> \o Join(Tail(parts), sep)

headers ==
    << <<"I", "D">>, <<"T", "y", "p", "e">>,
       <<"A", "l", "t", " ", "T", "e", "x", "t">>,
       <<"K", "e", "y", "w", "o", "r", "d", "s">>,
       <<"T", "a", "x", "o", "n", "o", "m", "y">>,
       <<"C", "o", "n", "f", "i", "d", "e", "n", "c", "e">> >>

\* The values array of one item, as downloadCsv builds it.
CsvValues(item) ==
    << Digits(item.pageNumber), item.type, Quoted(item.altText),
       Quoted(item.keywords), Quoted(item.taxonomy), ToFixed2(item.confidence) >>

\* csvRows.join('\n'): the header row, then one row per item.
CsvFile(items) ==
    Join(<<Join(headers, ",")>> \o [k \in 1..Len(items) |-> Join(CsvValues(items[k]), ",")],
         "\n")

\* Download CSV is about to be clicked.
CsvInit ==
    /\ AppIdle
    /\ \E pageNumber \in {1, 12}, type \in CsvTexts \ {<<>>}, altText \in CsvTexts,
          keywords \in ShortCsvTexts, taxonomy \in {<<>>, <<"\"">>},
          confidence \in {5, 9550} :
          \E items \in CsvLists(CsvItem(pageNumber, type, altText, keywords,
                                        taxonomy, confidence)) :
             call = [pc |-> "shown", results |-> items, blob |-> <<>>]

\* downloadCsv: nothing for an empty list, else the file is handed to the
\* browser.
DownloadCsv ==
    /\ call.pc = "shown"
    /\ call' = IF Len(call.results) = 0 THEN [call EXCEPT !.pc = "returned"]
               ELSE [call EXCEPT !.pc = "downloaded",
                                 !.blob = <<CsvFile(call.results)>>]
    /\ UNCHANGED app

CsvNext ==
    \/ DownloadCsv

CsvSpec == CsvInit /\ [][CsvNext]_vars

\* A reader of CSV.  Fields are separated by commas and records by line
\* breaks; a comma or line break with an odd number of double quotes between
\* it and the start of its field lies inside a quoted field and separates
\* nothing.  A field that starts with a double quote is read without its
\* enclosing quotes, a doubled double quote inside it standing for one.
QuotesIn(text, i, j) == Cardinality({ k \in i..j : text[k] = "\"" })

\* The position of the separator that ends the field starting at i.
FieldEnd(text, i) ==
    LET ends == { j \in i..Len(text) :
                    text[j] \in {",", "\n"} /\ QuotesIn(text, i, j - 1) % 2 = 0 }
    IN IF ends = {} THEN Len(text) + 1
       ELSE CHOOSE j \in ends : \A k \in ends : j <= k

RECURSIVE Undouble(_)
Undouble(text) ==
    IF text = <<>> THEN <<>>
    ELSE IF Len(text) >= 2 /\ text[1] = "\"" /\ text[2] = "\""
         THEN <<"\"">> \o Undouble(SubSeq(text, 3, Len(text)))
         ELSE <<text[1]>> \o Undouble(Tail(text))

Unquoted(raw) ==
    IF Len(raw) >= 2 /\ raw[1] = "\"" /\ raw[Len(raw)] = "\""
    THEN Undouble(SubSeq(raw, 2, Len(raw) - 1))
    ELSE raw

RECURSIVE ParseCsv(_, _, _, _)
ParseCsv(text, i, row, rows) ==
    LET end == FieldEnd(text, i)
        field == Unquoted(SubSeq(text, i, end - 1))
    IN IF end > Len(text) THEN Append(rows, Append(row, field))
       ELSE IF text[end] = ","
            THEN ParseCsv(text, end + 1, Append(row, field), rows)
            ELSE ParseCsv(text, end + 1, <<>>, Append(rows, Append(row, field)))

\* The six columns of an item: position, type, alt text, keywords, taxonomy
\* and confidence as a percentage.
CsvColumns(item) ==
    << Digits(item.pageNumber), item.type, item.altText, item.keywords,
       item.taxonomy, ToFixed2(item.confidence) >>

\* C32: the exported file, read as CSV, is the header row followed by one
\* row per item in list order, each of six columns that hold the item's
\* position, type, alt text, keywords, taxonomy and confidence in percent,
\* whatever commas, quotes and line breaks the item's string fields hold.
C32_ExportReadsBackAsItems ==
    call.pc = "downloaded" =>
        ParseCsv(call.blob[1], 1, <<>>, <<>>)
            = <<headers>> \o [k \in 1..Len(call.results) |-> CsvColumns(call.results[k])]

====
